---- MODULE Spec2Model ----
(***************************************************************************)
(* Multi-provider inference orchestration of the AI service:               *)
(* executeWithFallback, the Swarm Engine (executeOpenRouterSwarm), the     *)
(* Hybrid Engine (getMultiModelResponse) and getChatResponse.              *)
(*                                                                         *)
(* The asynchronous call chain is a stack of frames: the top frame runs,   *)
(* every frame below it is suspended on an await of the frame above it.    *)
(* The parallel calls of an engine are the branches `br` of its frame;     *)
(* they settle in any order.  An adapter call (callGemini, callOpenRouter, *)
(* callHuggingFace) is one request whose outcome the environment chooses.  *)
(*                                                                         *)
(* SpecAdapter follows one call of a retry adapter through its loops over  *)
(* models and credentials; the environment chooses every response.         *)
(* SpecCache follows the model discovery cache: calls of refreshModelCache *)
(* that overlap, their two discovery requests, and the clock.              *)
(***************************************************************************)
EXTENDS Integers, Sequences, FiniteSets, TLC

VARIABLES stack, memories

\* one call of a retry adapter (callOpenRouter or callHuggingFace)
VARIABLES adapter, specificModel, modelsToTry, apiKeyList, modelIdx, keyIdx,
          adapterPc, adapterLastError, requests, outcome

\* the model discovery cache, the clock, and the refreshModelCache calls
VARIABLES cachedOpenRouterModels, cachedHuggingFaceModels, lastDiscoveryTime,
          clock, refreshes, justWritten

\* one call of sanitizeAndParseJson: its argument and its outcome
VARIABLES jsonInput, jsonResult

\* one call of selectSwarmModels: its arguments and its result
VARIABLES selectInput, selectResult

\* one streamed call of executeWithFallback: the settings it is given, the
\* trial it is at, where it is, and the chunks handed to onChunk so far
VARIABLES streamSettings, streamCall, streamPc, delivered

\* the streaming loop of callOpenRouter over one response body: the body, how
\* much of it the reader has handed out, the text not yet split into lines, the
\* deltas handed to onChunk, the accumulated text, and where the loop is
VARIABLES sseInput, ssePos, sseBuffer, sseDelivered, sseFullResponse, ssePc

\* one call of discoverFreeOpenRouterModels: the listing it is answered with
\* and the catalog it returns
VARIABLES scoreInput, scoreResult

\* the requests built for one top-level call: its history, its prompt, and
\* the request every request-building site has issued
VARIABLES wireHistory, wirePrompt, wireRequests

\* the entry of callOpenRouter: the messages it is given and the catalog as
\* it was when the call began
VARIABLES entryInput

\* the sandbox: the calls of executeSkillInSandbox, the calls whose listeners
\* are on the worker, the requests posted to the worker, the asynchronous
\* skills running in it, and the events it has posted back
VARIABLES sandboxCalls, listeners, workerInbox, workerRunning, mainEvents

\* automatic skill learning in App: the sender of the last message, the loading
\* state, the ref isLearning, whether the 3-second timer of the effect is
\* pending, the calls of performAutomaticLearning in start order, and whether a
\* proposed skill is shown
VARIABLES lastSender, isLoading, isLearning, learningTimer, analyses, newSkill

\* the API keys: the persisted settings of App, the draft of the settings screen,
\* and the settings captured by the requests in flight
VARIABLES aiSettings, localSettings, captured

adapterVars == <<adapter, specificModel, modelsToTry, apiKeyList, modelIdx, keyIdx,
                 adapterPc, adapterLastError, requests, outcome>>

cacheVars == <<cachedOpenRouterModels, cachedHuggingFaceModels, lastDiscoveryTime,
               clock, refreshes, justWritten>>

jsonVars == <<jsonInput, jsonResult>>

selectVars == <<selectInput, selectResult>>

streamVars == <<streamSettings, streamCall, streamPc, delivered>>

sseVars == <<sseInput, ssePos, sseBuffer, sseDelivered, sseFullResponse, ssePc>>

scoreVars == <<scoreInput, scoreResult>>

wireVars == <<wireHistory, wirePrompt, wireRequests>>

sandboxVars == <<sandboxCalls, listeners, workerInbox, workerRunning, mainEvents>>

learnVars == <<lastSender, isLoading, isLearning, learningTimer, analyses, newSkill>>

keysVars == <<aiSettings, localSettings, captured>>

moreVars == <<sseVars, scoreVars, wireVars, entryInput, sandboxVars, learnVars, keysVars>>

serviceVars == <<stack, memories, adapterVars, cacheVars, jsonVars, selectVars, streamVars>>

exceptSse == <<serviceVars, scoreVars, wireVars, entryInput, sandboxVars, learnVars, keysVars>>
exceptScore == <<serviceVars, sseVars, wireVars, entryInput, sandboxVars, learnVars, keysVars>>
exceptWire == <<serviceVars, sseVars, scoreVars, entryInput, sandboxVars, learnVars, keysVars>>
exceptSandbox == <<serviceVars, sseVars, scoreVars, wireVars, entryInput, learnVars, keysVars>>
exceptLearn == <<serviceVars, sseVars, scoreVars, wireVars, entryInput, sandboxVars, keysVars>>
exceptKeys == <<serviceVars, sseVars, scoreVars, wireVars, entryInput, sandboxVars, learnVars>>

vars == <<serviceVars, moreVars>>

\* ---- bounds ----
\* the deepest frame at which an engine or a chat call is started; the
\* synthesis call of the Swarm, whose forced policy starts no further call, is
\* made at any depth
MaxDepth == 4
MaxSwarmModels == 2
MaxModels == 2
MaxTicks == 3
MaxChunks == 2
MaxLines == 3
MaxOffers == 3
MaxTurns == 2
MaxCatalog == 3
MaxCalls == 2
\* the calls of performAutomaticLearning that are followed
MaxAnalyses == 3
\* the keys OpenRouter and Hugging Face can be given, and the requests in
\* flight at a time
MaxOpenRouterKeys == 2
MaxHuggingFaceKeys == 1
MaxRequests == 1

\* ---- values ----
Providers == {"gemini", "openrouter", "huggingface", "hybrid"}

\* the credential lists of a policy: none, or one key
OpenRouterKeyLists == {<< >>, <<"or-key">>}
HuggingFaceKeyLists == {<< >>, <<"hf-key">>}

SettingsSet ==
    [provider : Providers, isComplexTaskMode : BOOLEAN,
     openRouterApiKeys : OpenRouterKeyLists, huggingFaceApiKeys : HuggingFaceKeyLists]

\* a text is a sequence of strings; the empty sequence is the empty string
NoText == << >>
TextOf(label, d) == <<label, ToString(d)>>

\* the prompt of a call that is not a synthesis call
UserPrompt == << <<"user", <<"prompt">> >> >>

\* error messages
NoError == << >>
GeminiError == <<"gemini request failed">>
OpenRouterError == <<"OpenRouter failed for model. Last error: ">>
HuggingFaceError == <<"Hugging Face failed. Checked models with all keys. Last error: ">>
NoOpenRouterKeys == <<"No OpenRouter Keys">>
NoHuggingFaceKeys == <<"No Hugging Face Keys">>
SwarmNeedsKeys == <<"Swarm mode requires OpenRouter Keys">>
SwarmFailed == <<"Swarm failed: All models returned errors.">>
HybridFailed == <<"Hybrid synthesis failed: All models failed.">>
AllFailed(lastError) == <<"All AI providers failed. Last error: ">> \o lastError

\* outcomes of one adapter call
callGemini == {"text", "empty", "throw"}
callOpenRouter == {"text", "empty", "throw"}
callHuggingFace == {"text", "throw"}

AdapterOutcomes(p) ==
    CASE p = "gemini" -> callGemini
      [] p = "openrouter" -> callOpenRouter
      [] p = "huggingface" -> callHuggingFace
      [] OTHER -> {}

AdapterError(p) ==
    CASE p = "gemini" -> GeminiError
      [] p = "openrouter" -> OpenRouterError
      [] OTHER -> HuggingFaceError

\* the text an adapter call of outcome o returns
AdapterText(o, label, d) == IF o = "text" THEN TextOf(label, d) ELSE NoText

\* ---- helper functions of the source ----
getOpenRouterKeys(settings) == settings.openRouterApiKeys

getHuggingFaceKeys(settings) == settings.huggingFaceApiKeys

NoRes == [kind |-> "none", val |-> << >>]
Ok(text) == [kind |-> "ok", val |-> text]
Err(msg) == [kind |-> "err", val |-> msg]

\* a fresh frame of function fn
Frame(fn, pc, settings, jsonMode, files, origin, prompt) ==
    [fn |-> fn, pc |-> pc, settings |-> settings, jsonMode |-> jsonMode,
     files |-> files, origin |-> origin, prompt |-> prompt,
     providers |-> << >>, idx |-> 1, lastError |-> NoError,
     att |-> << >>, sent |-> << >>, swarm |-> "no",
     br |-> << >>, res |-> NoRes]

\* ---- the stack ----
Depth == Len(stack)
Top == stack[Depth]
Parent == stack[Depth - 1]
ReplaceTop(f) == [stack EXCEPT ![Depth] = f]
Push(f, child) == Append(ReplaceTop(f), child)
PopInto(f) == Append(SubSeq(stack, 1, Depth - 2), f)
Finish(f, res) == [f EXCEPT !.pc = "done", !.res = res]

\* ---- executeWithFallback ----

\* the condition of the Swarm attempt
hasOpenRouter(settings) == Len(getOpenRouterKeys(settings)) > 0

\* variant: the structured-output flag is not looked at
SwarmEligible_IgnoresJson(f) ==
    /\ f.settings.isComplexTaskMode
    /\ hasOpenRouter(f.settings)
    /\ ~f.files

SwarmEligible(f) ==
    /\ f.settings.isComplexTaskMode
    /\ hasOpenRouter(f.settings)
    /\ ~f.files
    /\ ~f.jsonMode

\* variant: the chosen provider is pushed after gemini
providers_GeminiFirst(settings) ==
    LET p1 == <<"gemini">>
        p2 == IF settings.provider # "gemini" THEN Append(p1, settings.provider) ELSE p1
        p3 == IF settings.provider # "openrouter" /\ Len(getOpenRouterKeys(settings)) > 0
              THEN Append(p2, "openrouter") ELSE p2
        p4 == IF settings.provider # "huggingface" /\ Len(getHuggingFaceKeys(settings)) > 0
              THEN Append(p3, "huggingface") ELSE p3
    IN p4

\* variant: openrouter is pushed whenever it has credentials
providers_NoDedup(settings) ==
    LET p1 == <<settings.provider>>
        p2 == IF settings.provider # "gemini" THEN Append(p1, "gemini") ELSE p1
        p3 == IF Len(getOpenRouterKeys(settings)) > 0
              THEN Append(p2, "openrouter") ELSE p2
        p4 == IF settings.provider # "huggingface" /\ Len(getHuggingFaceKeys(settings)) > 0
              THEN Append(p3, "huggingface") ELSE p3
    IN p4

\* the provider trial list, built by successive pushes
providers(settings) ==
    LET p1 == <<settings.provider>>
        p2 == IF settings.provider # "gemini" THEN Append(p1, "gemini") ELSE p1
        p3 == IF settings.provider # "openrouter" /\ Len(getOpenRouterKeys(settings)) > 0
              THEN Append(p2, "openrouter") ELSE p2
        p4 == IF settings.provider # "huggingface" /\ Len(getHuggingFaceKeys(settings)) > 0
              THEN Append(p3, "huggingface") ELSE p3
    IN p4

\* entry of executeOpenRouterSwarm, up to its first await
executeOpenRouterSwarm(f) ==
    LET g == Frame("swarm", "refresh", f.settings, FALSE, FALSE, "swarm", f.prompt)
    IN IF Len(getOpenRouterKeys(f.settings)) = 0 THEN Finish(g, Err(SwarmNeedsKeys)) ELSE g

\* entry of getMultiModelResponse, up to its first await
getMultiModelResponse(f) ==
    Frame("hybrid", "refresh", f.settings, FALSE, FALSE, "hybrid", f.prompt)

\* entry of the call: Swarm attempt, or the trial list
executeWithFallback_Start ==
    /\ Top.fn = "ewf" /\ Top.pc = "start"
    /\ IF SwarmEligible(Top)
       THEN /\ Depth < MaxDepth
            /\ stack' = Push([Top EXCEPT !.pc = "await_swarm", !.swarm = "tried"],
                             executeOpenRouterSwarm(Top))
       ELSE stack' = ReplaceTop([Top EXCEPT !.pc = "loop",
                                            !.providers = providers(Top.settings)])
    /\ UNCHANGED <<memories, adapterVars, cacheVars, jsonVars, selectVars, streamVars, moreVars>>

\* variant: the failure of the Swarm attempt is not caught
executeWithFallback_SwarmSettled_NoCatch ==
    /\ Depth > 1
    /\ Top.fn = "swarm" /\ Top.pc = "done"
    /\ Parent.fn = "ewf" /\ Parent.pc = "await_swarm"
    /\ IF Top.res.kind = "ok"
       THEN stack' = PopInto(Finish([Parent EXCEPT !.swarm = "ok"], Top.res))
       ELSE stack' = PopInto(Finish([Parent EXCEPT !.swarm = "failed"], Top.res))
    /\ UNCHANGED <<memories, adapterVars, cacheVars, jsonVars, selectVars, streamVars, moreVars>>

\* the Swarm attempt has settled: return its text, or fall back to the list
executeWithFallback_SwarmSettled ==
    /\ Depth > 1
    /\ Top.fn = "swarm" /\ Top.pc = "done"
    /\ Parent.fn = "ewf" /\ Parent.pc = "await_swarm"
    /\ IF Top.res.kind = "ok"
       THEN stack' = PopInto(Finish([Parent EXCEPT !.swarm = "ok"], Top.res))
       ELSE stack' = PopInto([Parent EXCEPT !.pc = "loop", !.swarm = "failed",
                                            !.providers = providers(Parent.settings)])
    /\ UNCHANGED <<memories, adapterVars, cacheVars, jsonVars, selectVars, streamVars, moreVars>>

\* the provider the loop is at
currentProvider(f) == f.providers[f.idx]

\* variant: only the first error is kept
Caught_KeepsFirstError(f, p, msg) ==
    [f EXCEPT !.pc = "loop",
              !.lastError = IF f.lastError = NoError THEN msg ELSE f.lastError,
              !.idx = f.idx + 1,
              !.att = Append(f.att, [p |-> p, out |-> "err", val |-> msg])]

\* a failed attempt: catch, lastError = error, next provider
Caught(f, p, msg) ==
    [f EXCEPT !.pc = "loop", !.lastError = msg, !.idx = f.idx + 1,
              !.att = Append(f.att, [p |-> p, out |-> "err", val |-> msg])]

\* variant: the result is awaited but not returned, the loop goes on
Returned_NoReturn(f, p, text) ==
    [f EXCEPT !.pc = "loop", !.idx = f.idx + 1,
              !.att = Append(f.att, [p |-> p, out |-> "ok", val |-> text])]

\* a returned attempt: the call returns its result
Returned(f, p, text) ==
    Finish([f EXCEPT !.att = Append(f.att, [p |-> p, out |-> "ok", val |-> text])],
           Ok(text))

\* variant: a provider is called whether it has credentials or not
executeWithFallback_Try_NoKeyCheck ==
    /\ Top.fn = "ewf" /\ Top.pc = "loop"
    /\ Top.idx <= Len(Top.providers)
    /\ LET p == currentProvider(Top)
       IN IF p = "hybrid"
          THEN /\ Depth < MaxDepth
               /\ stack' = Push([Top EXCEPT !.pc = "await_provider"],
                                getMultiModelResponse(Top))
          ELSE stack' = ReplaceTop([Top EXCEPT !.pc = "await_provider",
                                               !.sent = Append(Top.sent, p)])
    /\ UNCHANGED <<memories, adapterVars, cacheVars, jsonVars, selectVars, streamVars, moreVars>>

\* one iteration of the loop, up to the await of the provider's call
executeWithFallback_Try ==
    /\ Top.fn = "ewf" /\ Top.pc = "loop"
    /\ Top.idx <= Len(Top.providers)
    /\ LET p == currentProvider(Top)
           apiKeys == IF p = "openrouter" THEN getOpenRouterKeys(Top.settings)
                   ELSE getHuggingFaceKeys(Top.settings)
           noKeys == IF p = "openrouter" THEN NoOpenRouterKeys ELSE NoHuggingFaceKeys
       IN CASE p = "hybrid" ->
                 /\ Depth < MaxDepth
                 /\ stack' = Push([Top EXCEPT !.pc = "await_provider"],
                                  getMultiModelResponse(Top))
            [] p = "gemini" ->
                 stack' = ReplaceTop([Top EXCEPT !.pc = "await_provider",
                                                 !.sent = Append(Top.sent, p)])
            [] OTHER ->
                 IF Len(apiKeys) = 0
                 THEN stack' = ReplaceTop(Caught(Top, p, noKeys))
                 ELSE stack' = ReplaceTop([Top EXCEPT !.pc = "await_provider",
                                                      !.sent = Append(Top.sent, p)])
    /\ UNCHANGED <<memories, adapterVars, cacheVars, jsonVars, selectVars, streamVars, moreVars>>

\* the adapter call of the current provider returns or throws
executeWithFallback_AdapterSettled ==
    /\ Top.fn = "ewf" /\ Top.pc = "await_provider"
    /\ LET p == currentProvider(Top)
       IN \E o \in AdapterOutcomes(p) :
            stack' = ReplaceTop(IF o = "throw"
                                THEN Caught(Top, p, AdapterError(p))
                                ELSE Returned(Top, p, AdapterText(o, p, Depth)))
    /\ UNCHANGED <<memories, adapterVars, cacheVars, jsonVars, selectVars, streamVars, moreVars>>

\* the Hybrid Engine called from the loop returns or throws
executeWithFallback_HybridSettled ==
    /\ Depth > 1
    /\ Top.fn = "hybrid" /\ Top.pc = "done"
    /\ Parent.fn = "ewf" /\ Parent.pc = "await_provider"
    /\ stack' = PopInto(IF Top.res.kind = "ok"
                        THEN Returned(Parent, "hybrid", Top.res.val)
                        ELSE Caught(Parent, "hybrid", Top.res.val))
    /\ UNCHANGED <<memories, adapterVars, cacheVars, jsonVars, selectVars, streamVars, moreVars>>

\* the list is exhausted: the aggregate failure
executeWithFallback_Exhausted ==
    /\ Top.fn = "ewf" /\ Top.pc = "loop"
    /\ Top.idx > Len(Top.providers)
    /\ stack' = ReplaceTop(Finish(Top, Err(AllFailed(Top.lastError))))
    /\ UNCHANGED <<memories, adapterVars, cacheVars, jsonVars, selectVars, streamVars, moreVars>>

\* ---- executeOpenRouterSwarm ----

SAFETY_FALLBACK_OPENROUTER ==
    <<"deepseek/deepseek-r1:free",
      "google/gemini-2.0-flash-lite-preview-02-05:free",
      "meta-llama/llama-3.3-70b-instruct:free",
      "mistralai/mistral-7b-instruct:free",
      "microsoft/phi-3-medium-128k-instruct:free">>

\* the model lists selectSwarmModels can return: 1 to 5 distinct identifiers
SwarmModelLists ==
    {SubSeq(SAFETY_FALLBACK_OPENROUTER, 1, n) :
        n \in 1..(IF MaxSwarmModels < 5 THEN MaxSwarmModels ELSE 5)}

Pending(label) == [label |-> label, st |-> "pending", success |-> FALSE, text |-> NoText]

\* variant: resolved as soon as one promise is settled
PromiseAll_Any(br) == \E i \in 1..Len(br) : br[i].st = "settled"

\* Promise.all over promises that never reject: resolved once all are settled
PromiseAll(br) == \A i \in 1..Len(br) : br[i].st = "settled"

\* variant: no filter
successfulResponses_All(br) == br

\* results.filter(r => r.success && r.text)
successfulResponses(br) ==
    LET keep(r) == r.success /\ r.text # NoText
    IN SelectSeq(br, keep)

\* the list of (identifier, text) pairs a synthesis prompt is built from
synthesisPrompt(rs) == [i \in 1..Len(rs) |-> <<rs[i].label, rs[i].text>>]

\* the policy of the Swarm's synthesis call
SwarmSynthesisSettings(settings) ==
    [settings EXCEPT !.isComplexTaskMode = FALSE, !.provider = "gemini"]

\* after the refresh: select the models and start one call per model
executeOpenRouterSwarm_FanOut ==
    /\ Top.fn = "swarm" /\ Top.pc = "refresh"
    /\ \E swarmModels \in SwarmModelLists :
         /\ stack' = ReplaceTop([Top EXCEPT
                !.pc = "await_all",
                !.br = [i \in 1..Len(swarmModels) |-> Pending(swarmModels[i])],
                !.sent = swarmModels])
    /\ UNCHANGED <<memories, adapterVars, cacheVars, jsonVars, selectVars, streamVars, moreVars>>

\* one per-model call settles: .then(success: true) or .catch(success: false)
executeOpenRouterSwarm_BranchSettled ==
    /\ Top.fn = "swarm" /\ Top.pc = "await_all"
    /\ \E i \in 1..Len(Top.br), o \in callOpenRouter :
         /\ Top.br[i].st = "pending"
         /\ stack' = ReplaceTop([Top EXCEPT !.br[i] =
                IF o = "throw"
                THEN [label |-> Top.br[i].label, st |-> "settled", success |-> FALSE,
                      text |-> <<"Failed: ">> \o OpenRouterError]
                ELSE [label |-> Top.br[i].label, st |-> "settled", success |-> TRUE,
                      text |-> AdapterText(o, Top.br[i].label, Depth)]])
    /\ UNCHANGED <<memories, adapterVars, cacheVars, jsonVars, selectVars, streamVars, moreVars>>

\* variant: the forced policy of the synthesis call is written into the
\* settings the Swarm was given
executeOpenRouterSwarm_Gather_InPlace ==
    /\ Top.fn = "swarm" /\ Top.pc = "await_all"
    /\ PromiseAll(Top.br)
    /\ LET rs == successfulResponses(Top.br)
       IN IF Len(rs) = 0
          THEN stack' = ReplaceTop(Finish(Top, Err(SwarmFailed)))
          ELSE stack' = Push([Top EXCEPT !.pc = "await_synth",
                                         !.settings = SwarmSynthesisSettings(Top.settings)],
                             Frame("ewf", "start", SwarmSynthesisSettings(Top.settings),
                                   FALSE, FALSE, "swarmSynth", synthesisPrompt(rs)))
    /\ UNCHANGED <<memories, adapterVars, cacheVars, jsonVars, selectVars, streamVars, moreVars>>

\* after Promise.all: fail, or start the synthesis call
executeOpenRouterSwarm_Gather ==
    /\ Top.fn = "swarm" /\ Top.pc = "await_all"
    /\ PromiseAll(Top.br)
    /\ LET rs == successfulResponses(Top.br)
       IN IF Len(rs) = 0
          THEN stack' = ReplaceTop(Finish(Top, Err(SwarmFailed)))
          ELSE stack' = Push([Top EXCEPT !.pc = "await_synth"],
                             Frame("ewf", "start", SwarmSynthesisSettings(Top.settings),
                                   FALSE, FALSE, "swarmSynth", synthesisPrompt(rs)))
    /\ UNCHANGED <<memories, adapterVars, cacheVars, jsonVars, selectVars, streamVars, moreVars>>

\* the synthesis call settles: its outcome is the Swarm's outcome
executeOpenRouterSwarm_SynthSettled ==
    /\ Depth > 1
    /\ Top.fn = "ewf" /\ Top.pc = "done"
    /\ Parent.fn = "swarm" /\ Parent.pc = "await_synth"
    /\ stack' = PopInto(Finish(Parent, Top.res))
    /\ UNCHANGED <<memories, adapterVars, cacheVars, jsonVars, selectVars, streamVars, moreVars>>

\* ---- getMultiModelResponse ----

\* the parallel calls of the Hybrid Engine, in the order they are pushed
HybridCalls(settings) ==
    LET c1 == << [label |-> "Gemini", to |-> "gemini"] >>
        c2 == IF Len(getOpenRouterKeys(settings)) > 0
              THEN Append(c1, [label |-> "OpenRouter (Dynamic)", to |-> "openrouter"])
              ELSE c1
        c3 == IF Len(getHuggingFaceKeys(settings)) > 0
              THEN Append(c2, [label |-> "HuggingFace (Dynamic)", to |-> "huggingface"])
              ELSE c2
    IN c3

HybridAdapter(label) ==
    CASE label = "Gemini" -> "gemini"
      [] label = "OpenRouter (Dynamic)" -> "openrouter"
      [] OTHER -> "huggingface"

\* variant: the successful results with non-empty text only
validResults_NonEmpty(br) ==
    LET keep(r) == r.success /\ r.text # NoText
    IN SelectSeq(br, keep)

\* results.filter(r => r !== null)
validResults(br) ==
    LET keep(r) == r.success
    IN SelectSeq(br, keep)

\* the policy of the Hybrid's synthesis call: the settings as they were given
HybridSynthesisSettings(settings) == settings

\* entry of getChatResponse(prompt, history, settings, files)
getChatResponse(settings, files, prompt) ==
    Frame("chat", "start", settings, FALSE, files, "chat", prompt)

\* after the refresh: degrade to one chat call, or start the parallel calls
getMultiModelResponse_FanOut ==
    /\ Top.fn = "hybrid" /\ Top.pc = "refresh"
    /\ IF Len(Top.settings.openRouterApiKeys) = 0 /\ Len(Top.settings.huggingFaceApiKeys) = 0
       THEN /\ Depth < MaxDepth
            /\ stack' = Push([Top EXCEPT !.pc = "await_chat"],
                             getChatResponse([Top.settings EXCEPT !.provider = "gemini"],
                                             FALSE, Top.prompt))
       ELSE LET calls == HybridCalls(Top.settings)
            IN stack' = ReplaceTop([Top EXCEPT
                   !.pc = "await_all",
                   !.br = [i \in 1..Len(calls) |-> Pending(calls[i].label)],
                   !.sent = [i \in 1..Len(calls) |-> calls[i].to]])
    /\ UNCHANGED <<memories, adapterVars, cacheVars, jsonVars, selectVars, streamVars, moreVars>>

\* one parallel call settles: .then(text, source) or .catch(() => null)
getMultiModelResponse_BranchSettled ==
    /\ Top.fn = "hybrid" /\ Top.pc = "await_all"
    /\ \E i \in 1..Len(Top.br) :
         /\ Top.br[i].st = "pending"
         /\ \E o \in AdapterOutcomes(HybridAdapter(Top.br[i].label)) :
              stack' = ReplaceTop([Top EXCEPT !.br[i] =
                IF o = "throw"
                THEN [label |-> Top.br[i].label, st |-> "settled", success |-> FALSE,
                      text |-> NoText]
                ELSE [label |-> Top.br[i].label, st |-> "settled", success |-> TRUE,
                      text |-> AdapterText(o, Top.br[i].label, Depth)]])
    /\ UNCHANGED <<memories, adapterVars, cacheVars, jsonVars, selectVars, streamVars, moreVars>>

\* after Promise.all: fail, or start the synthesis call
getMultiModelResponse_Gather ==
    /\ Top.fn = "hybrid" /\ Top.pc = "await_all"
    /\ PromiseAll(Top.br)
    /\ LET rs == validResults(Top.br)
       IN IF Len(rs) = 0
          THEN stack' = ReplaceTop(Finish(Top, Err(HybridFailed)))
          ELSE /\ Depth < MaxDepth
               /\ stack' = Push([Top EXCEPT !.pc = "await_synth"],
                                Frame("ewf", "start", HybridSynthesisSettings(Top.settings),
                                      FALSE, FALSE, "hybridSynth", synthesisPrompt(rs)))
    /\ UNCHANGED <<memories, adapterVars, cacheVars, jsonVars, selectVars, streamVars, moreVars>>

\* the synthesis call, or the degraded chat call, settles
getMultiModelResponse_Settled ==
    /\ Depth > 1
    /\ Top.pc = "done"
    /\ Parent.fn = "hybrid"
    /\ \/ Top.fn = "ewf" /\ Parent.pc = "await_synth"
       \/ Top.fn = "chat" /\ Parent.pc = "await_chat"
    /\ stack' = PopInto(Finish(IF Top.fn = "chat"
                                THEN [Parent EXCEPT !.sent = Top.sent]
                                ELSE Parent,
                                Top.res))
    /\ UNCHANGED <<memories, adapterVars, cacheVars, jsonVars, selectVars, streamVars, moreVars>>

\* ---- getChatResponse ----

\* the call of the answer: executeWithFallback(finalPrompt, history, settings, files)
ChatMain(f) == Frame("ewf", "start", f.settings, FALSE, f.files, "chatMain", f.prompt)

\* variant: the memory store is never consulted
getChatResponse_Start_NoRetrieval ==
    /\ Top.fn = "chat" /\ Top.pc = "start"
    /\ Depth < MaxDepth
    /\ stack' = Push([Top EXCEPT !.pc = "await_main"], ChatMain(Top))
    /\ UNCHANGED <<memories, adapterVars, cacheVars, jsonVars, selectVars, streamVars, moreVars>>

\* retrieveRelevantMemories: nothing to ask without memories, else a JSON call
getChatResponse_Start ==
    /\ Top.fn = "chat" /\ Top.pc = "start"
    /\ Depth < MaxDepth
    /\ IF ~Top.files /\ Len(memories) > 0
       THEN stack' = Push([Top EXCEPT !.pc = "await_memories"],
                          Frame("ewf", "start", Top.settings, TRUE, FALSE, "memories",
                                UserPrompt))
       ELSE stack' = Push([Top EXCEPT !.pc = "await_main"], ChatMain(Top))
    /\ UNCHANGED <<memories, adapterVars, cacheVars, jsonVars, selectVars, streamVars, moreVars>>

\* the retrieval call settles (a failure is answered by the offline search);
\* sent of a chat frame collects the requests its own calls have issued
getChatResponse_MemoriesSettled ==
    /\ Depth > 1
    /\ Top.fn = "ewf" /\ Top.pc = "done"
    /\ Parent.fn = "chat" /\ Parent.pc = "await_memories"
    /\ stack' = Append(PopInto([Parent EXCEPT !.pc = "await_main",
                                              !.sent = Parent.sent \o Top.sent]),
                       ChatMain(Parent))
    /\ UNCHANGED <<memories, adapterVars, cacheVars, jsonVars, selectVars, streamVars, moreVars>>

\* the answer call settles: its outcome is the outcome of getChatResponse
getChatResponse_MainSettled ==
    /\ Depth > 1
    /\ Top.fn = "ewf" /\ Top.pc = "done"
    /\ Parent.fn = "chat" /\ Parent.pc = "await_main"
    /\ stack' = PopInto(Finish([Parent EXCEPT !.sent = Parent.sent \o Top.sent], Top.res))
    /\ UNCHANGED <<memories, adapterVars, cacheVars, jsonVars, selectVars, streamVars, moreVars>>

\* ---- the retry adapters: callOpenRouter and callHuggingFace ----

SAFETY_FALLBACK_HF ==
    <<"HuggingFaceH4/zephyr-7b-beta", "mistralai/Mistral-7B-Instruct-v0.3">>

\* identifiers a Hugging Face listing adds behind the safety list
TrendingHF == <<"gpt2", "distilgpt2", "bigscience/bloom-560m">>

\* the credential lists of an adapter call: its callers pass one key or more
AdapterKeyLists == {<<"key-1">>, <<"key-1", "key-2">>}

\* specificModel is absent
NoModel == ""

\* contents of cachedOpenRouterModels once it is filled
OpenRouterCatalogs ==
    {SubSeq(SAFETY_FALLBACK_OPENROUTER, 1, n) :
        n \in 1..(IF MaxModels < 5 THEN MaxModels ELSE 5)}

\* contents of cachedHuggingFaceModels once it is filled: the safety list first
HuggingFaceCatalogs ==
    {SubSeq(SAFETY_FALLBACK_HF \o TrendingHF, 1, n) :
        n \in 2..(IF MaxModels < 2 THEN 2 ELSE IF MaxModels < 5 THEN MaxModels ELSE 5)}

\* let modelsToTry = specificModel ? [specificModel] : [...cachedOpenRouterModels]
ModelsToTry(pinned, catalog) == IF pinned # NoModel THEN <<pinned>> ELSE catalog

\* a response of the backend; fetch itself rejects on a network error
Response(status, body) == [status |-> status, body |-> body]
NetworkError == Response(0, "network error")
InFlight == Response(0, "in flight")

OpenRouterResponses ==
    {NetworkError}
    \cup {Response(st, "error") : st \in {401, 402, 429, 500}}
    \cup {Response(200, body) : body \in {"text", "empty", "malformed"}}

HuggingFaceResponses ==
    {NetworkError}
    \cup {Response(st, "error") : st \in {401, 402, 429, 503}}
    \cup {Response(200, body) : body \in {"text", "empty", "loading", "malformed"}}

\* response.ok
ok(resp) == resp.status \in 200..299

\* the text a backend generates for a model
ResponseText(model) == <<"completion of ", model>>

\* values of lastError
Undefined == <<"undefined">>
FetchFailed == <<"TypeError: Failed to fetch">>
MalformedBody == <<"TypeError: Cannot read properties of undefined">>
ModelLoading == <<"Error: Model loading">>
EmptyResponse == <<"Error: Empty response">>

OpenRouterFailed(pinned, error) ==
    <<"OpenRouter failed for model ", IF pinned # NoModel THEN pinned ELSE "auto",
      ". Last error: ">> \o error

HuggingFaceFailed(error) ==
    <<"Hugging Face failed. Checked models with all keys. Last error: ">> \o error

\* what one iteration does with the response
Continue == [go |-> "continue", error |-> Undefined, text |-> NoText]
Break == [go |-> "break", error |-> Undefined, text |-> NoText]
Catch(error) == [go |-> "catch", error |-> error, text |-> NoText]
Return(text) == [go |-> "return", error |-> Undefined, text |-> text]

\* variant: a payment-required status abandons the model
callOpenRouter_Iteration_402Breaks(resp, model) ==
    CASE resp = NetworkError -> Catch(FetchFailed)
      [] ~ok(resp) -> IF resp.status = 401 \/ resp.status = 429
                      THEN Continue ELSE Break
      [] resp.body = "malformed" -> Catch(MalformedBody)
      [] resp.body = "empty" -> Return(NoText)
      [] OTHER -> Return(ResponseText(model))

\* the body of the loops of callOpenRouter, without streaming
callOpenRouter_Iteration(resp, model) ==
    CASE resp = NetworkError -> Catch(FetchFailed)
      [] ~ok(resp) -> IF resp.status = 401 \/ resp.status = 402 \/ resp.status = 429
                      THEN Continue ELSE Break
      [] resp.body = "malformed" -> Catch(MalformedBody)
      [] resp.body = "empty" -> Return(NoText)
      [] OTHER -> Return(ResponseText(model))

\* variant: a success response is returned whatever its text
callHuggingFace_Iteration_ReturnsEmpty(resp, model) ==
    CASE resp = NetworkError -> Catch(FetchFailed)
      [] ~ok(resp) -> IF resp.status = 401 \/ resp.status = 429
                      THEN Continue ELSE Break
      [] resp.body = "malformed" -> Catch(MalformedBody)
      [] resp.body = "loading" -> Catch(ModelLoading)
      [] resp.body = "empty" -> Return(NoText)
      [] OTHER -> Return(ResponseText(model))

\* the body of the loops of callHuggingFace
callHuggingFace_Iteration(resp, model) ==
    CASE resp = NetworkError -> Catch(FetchFailed)
      [] ~ok(resp) -> IF resp.status = 401 \/ resp.status = 429
                      THEN Continue ELSE Break
      [] resp.body = "malformed" -> Catch(MalformedBody)
      [] resp.body = "loading" -> Catch(ModelLoading)
      [] resp.body = "empty" -> Catch(EmptyResponse)
      [] OTHER -> Return(ResponseText(model))

\* variant: the models are taken from the end of the list
currentModel_Reversed == modelsToTry[Len(modelsToTry) + 1 - modelIdx]

\* the model and the credential the loops are at
currentModel == modelsToTry[modelIdx]

currentKey == apiKeyList[keyIdx]

\* the position after the iteration: continue and catch go on with the inner
\* loop, break leaves it
Advance(go) ==
    IF go = "break" \/ keyIdx >= Len(apiKeyList)
    THEN <<modelIdx + 1, 1>>
    ELSE <<modelIdx, keyIdx + 1>>

\* the request of the iteration is issued
Fetch ==
    /\ adapterPc = "loop"
    /\ modelIdx <= Len(modelsToTry)
    /\ requests' = Append(requests, [model |-> currentModel, apiKey |-> currentKey,
                                     m |-> modelIdx, k |-> keyIdx, resp |-> InFlight])
    /\ adapterPc' = "await"
    /\ UNCHANGED <<adapter, specificModel, modelsToTry, apiKeyList, modelIdx, keyIdx,
                   adapterLastError, outcome>>
    /\ UNCHANGED <<stack, memories, cacheVars, jsonVars, selectVars, streamVars, moreVars>>

\* the iteration ends: return, or the next iteration
Settle(resp, it) ==
    /\ requests' = [requests EXCEPT ![Len(requests)].resp = resp]
    /\ adapterLastError' = IF it.go = "catch" THEN it.error ELSE adapterLastError
    /\ IF it.go = "return"
       THEN /\ adapterPc' = "done"
            /\ outcome' = Ok(it.text)
            /\ UNCHANGED <<modelIdx, keyIdx>>
       ELSE /\ adapterPc' = "loop"
            /\ modelIdx' = Advance(it.go)[1]
            /\ keyIdx' = Advance(it.go)[2]
            /\ UNCHANGED outcome
    /\ UNCHANGED <<adapter, specificModel, modelsToTry, apiKeyList>>
    /\ UNCHANGED <<stack, memories, cacheVars, jsonVars, selectVars, streamVars, moreVars>>

callOpenRouter_Fetch ==
    /\ adapter = "openrouter"
    /\ Fetch

callOpenRouter_Response ==
    /\ adapter = "openrouter" /\ adapterPc = "await"
    /\ \E resp \in OpenRouterResponses :
         Settle(resp, callOpenRouter_Iteration(resp, requests[Len(requests)].model))

\* both loops are over: the aggregate failure
callOpenRouter_Exhausted ==
    /\ adapter = "openrouter" /\ adapterPc = "loop"
    /\ modelIdx > Len(modelsToTry)
    /\ adapterPc' = "done"
    /\ outcome' = Err(OpenRouterFailed(specificModel, adapterLastError))
    /\ UNCHANGED <<adapter, specificModel, modelsToTry, apiKeyList, modelIdx, keyIdx,
                   adapterLastError, requests>>
    /\ UNCHANGED <<stack, memories, cacheVars, jsonVars, selectVars, streamVars, moreVars>>

callHuggingFace_Fetch ==
    /\ adapter = "huggingface"
    /\ Fetch

\* variant: a loading signal ends the whole call
callHuggingFace_Response_LoadingAborts ==
    /\ adapter = "huggingface" /\ adapterPc = "await"
    /\ \E resp \in HuggingFaceResponses :
         IF resp.body = "loading"
         THEN /\ requests' = [requests EXCEPT ![Len(requests)].resp = resp]
              /\ adapterPc' = "done"
              /\ outcome' = Err(HuggingFaceFailed(ModelLoading))
              /\ UNCHANGED <<adapter, specificModel, modelsToTry, apiKeyList, modelIdx,
                             keyIdx, adapterLastError>>
              /\ UNCHANGED <<stack, memories, cacheVars, jsonVars, selectVars, streamVars, moreVars>>
         ELSE Settle(resp, callHuggingFace_Iteration(resp, requests[Len(requests)].model))

callHuggingFace_Response ==
    /\ adapter = "huggingface" /\ adapterPc = "await"
    /\ \E resp \in HuggingFaceResponses :
         Settle(resp, callHuggingFace_Iteration(resp, requests[Len(requests)].model))

callHuggingFace_Exhausted ==
    /\ adapter = "huggingface" /\ adapterPc = "loop"
    /\ modelIdx > Len(modelsToTry)
    /\ adapterPc' = "done"
    /\ outcome' = Err(HuggingFaceFailed(adapterLastError))
    /\ UNCHANGED <<adapter, specificModel, modelsToTry, apiKeyList, modelIdx, keyIdx,
                   adapterLastError, requests>>
    /\ UNCHANGED <<stack, memories, cacheVars, jsonVars, selectVars, streamVars, moreVars>>

\* ---- the model discovery cache ----

CACHE_DURATION == 1000 * 60 * 60

\* Date.now() when the module is loaded: any instant later than the first hour
ClockStart == CACHE_DURATION + 1

\* an entry of the OpenRouter listing; a field the body lacks is Missing
Missing == "<undefined>"
Offer(id, prompt, completion) ==
    [id |-> id, pricing |-> [prompt |-> prompt, completion |-> completion]]

\* a settled discovery request: fetch rejected, a body that is not the
\* expected JSON, or a listing
Listing(data) == [kind |-> "listing", data |-> data]
FetchRejected == [kind |-> "network error", data |-> << >>]
InvalidBody == [kind |-> "malformed", data |-> << >>]
NotYet == [kind |-> "pending", data |-> << >>]

OpenRouterListings ==
    { << Offer("openai/gpt-4o", "0", "0.00001") >>,
      << Offer("mistralai/mistral-7b-instruct:free", "0", "0"),
         Offer("openai/gpt-4o", "0", "0.000015"),
         Offer("meta-llama/llama-3.3-70b-instruct:free", "0", "0"),
         Offer("deepseek/deepseek-r1:free", "0", "0") >>,
      << Offer(Missing, "0", "0") >>,
      << Offer(Missing, "0", "0"), Offer("deepseek/deepseek-r1:free", "0", "0") >> }

OpenRouterDiscoveryResponses ==
    {FetchRejected, InvalidBody} \cup {Listing(data) : data \in OpenRouterListings}

HuggingFaceListings ==
    { <<"gpt2", "google/gemma-7b-it", "mistralai/Mistral-7B-Instruct-v0.3", "gpt2",
        "distilgpt2">> }

HuggingFaceDiscoveryResponses ==
    {FetchRejected, InvalidBody} \cup {Listing(data) : data \in HuggingFaceListings}

\* parseFloat(price || "1") === 0
isZeroPrice(price) ==
    CASE price = Missing -> FALSE
      [] price = "0" -> TRUE
      [] OTHER -> FALSE

\* the markers of getScore, of the Hugging Face filter and of
\* selectSwarmModels an identifier includes
includes(id) ==
    CASE id = "deepseek/deepseek-r1:free" -> {"deepseek-r1", "deepseek", "r1", "free"}
      [] id = "meta-llama/llama-3.3-70b-instruct:free" -> {"llama-3", "llama", "70b", "free"}
      [] id = "mistralai/mistral-7b-instruct:free" -> {"mistral", "free"}
      [] id = "mistralai/Mistral-7B-Instruct-v0.3" -> {"mistral"}
      [] id = "google/gemma-7b-it" -> {"gemma-7b"}
      [] id = "google/gemini-2.0-flash-lite-preview-02-05:free" -> {"gemini", "flash", "free"}
      [] id = "qwen/qwen-2.5-coder-32b-instruct:free" -> {"coder", "free"}
      [] id = "microsoft/phi-3-medium-128k-instruct:free" -> {"free"}
      [] id = "openai/gpt-oss-20b:free" -> {"free"}
      [] id = "deepseek/deepseek-r1" -> {"deepseek-r1", "deepseek", "r1"}
      [] id = "meta-llama/llama-3-8b-instruct" -> {"llama-3", "llama"}
      [] id = "nousresearch/hermes-70b" -> {"70b"}
      [] OTHER -> {}

\* variant: the parameter-count marker outweighs the family names
getScore_ParameterCountFirst(id) ==
    (IF "deepseek-r1" \in includes(id) THEN 15 ELSE 0)
    + (IF "llama-3" \in includes(id) THEN 10 ELSE 0)
    + (IF "mistral" \in includes(id) THEN 8 ELSE 0)
    + (IF "gemini" \in includes(id) THEN 8 ELSE 0)
    + (IF "70b" \in includes(id) THEN 12 ELSE 0)
    + (IF "free" \in includes(id) THEN 1 ELSE 0)

getScore(id) ==
    (IF "deepseek-r1" \in includes(id) THEN 15 ELSE 0)
    + (IF "llama-3" \in includes(id) THEN 10 ELSE 0)
    + (IF "mistral" \in includes(id) THEN 8 ELSE 0)
    + (IF "gemini" \in includes(id) THEN 8 ELSE 0)
    + (IF "70b" \in includes(id) THEN 5 ELSE 0)
    + (IF "free" \in includes(id) THEN 1 ELSE 0)

\* freeModels.sort((a, b) => getScore(b) - getScore(a)): stable, descending
RECURSIVE sortByScore(_)
sortByScore(models) ==
    IF Len(models) = 0 THEN << >>
    ELSE LET best == CHOOSE i \in 1..Len(models) :
                       \A j \in 1..Len(models) :
                         \/ getScore(models[j].id) < getScore(models[i].id)
                         \/ getScore(models[j].id) = getScore(models[i].id) /\ i <= j
             rest == [j \in 1..(Len(models) - 1) |->
                        IF j < best THEN models[j] ELSE models[j + 1]]
         IN <<models[best]>> \o sortByScore(rest)

\* the comparator reads m.id.toLowerCase(): it throws on an entry without id,
\* and it is called as soon as there are two entries to compare
sortThrows(models) ==
    /\ Len(models) >= 2
    /\ \E i \in 1..Len(models) : models[i].id = Missing

\* variant: the filter looks at the prompt price only
discoverFreeOpenRouterModels_PromptOnly(resp) ==
    IF resp.kind # "listing" THEN SAFETY_FALLBACK_OPENROUTER
    ELSE LET isFree(model) == isZeroPrice(model.pricing.prompt)
             freeModels == SelectSeq(resp.data, isFree)
             sortedModels == sortByScore(freeModels)
             modelIds == [i \in 1..Len(sortedModels) |-> sortedModels[i].id]
         IN IF sortThrows(freeModels) THEN SAFETY_FALLBACK_OPENROUTER
            ELSE IF Len(modelIds) > 0 THEN modelIds ELSE SAFETY_FALLBACK_OPENROUTER

discoverFreeOpenRouterModels(resp) ==
    IF resp.kind # "listing" THEN SAFETY_FALLBACK_OPENROUTER
    ELSE LET isFree(model) == /\ isZeroPrice(model.pricing.prompt)
                              /\ isZeroPrice(model.pricing.completion)
             freeModels == SelectSeq(resp.data, isFree)
             sortedModels == sortByScore(freeModels)
             modelIds == [i \in 1..Len(sortedModels) |-> sortedModels[i].id]
         IN IF sortThrows(freeModels) THEN SAFETY_FALLBACK_OPENROUTER
            ELSE IF Len(modelIds) > 0 THEN modelIds ELSE SAFETY_FALLBACK_OPENROUTER

\* the zero-priced listings of up to MaxOffers models, one for every class of
\* markers and one with none but the free suffix
ScoredIds ==
    {"deepseek/deepseek-r1", "meta-llama/llama-3-8b-instruct",
     "mistralai/Mistral-7B-Instruct-v0.3", "nousresearch/hermes-70b",
     "openai/gpt-oss-20b:free"}

ScoredListings ==
    UNION {[1..n -> {Offer(id, "0", "0") : id \in ScoredIds}] : n \in 0..MaxOffers}

NoCatalog == <<"<pending>">>

\* a call of discoverFreeOpenRouterModels returns
discoverFreeOpenRouterModels_Call ==
    /\ scoreResult = NoCatalog
    /\ scoreResult' = discoverFreeOpenRouterModels(Listing(scoreInput))
    /\ UNCHANGED scoreInput
    /\ UNCHANGED exceptScore

\* [...new Set(ids)]: the first occurrence of every identifier, in order
RECURSIVE unique(_)
unique(ids) ==
    IF Len(ids) = 0 THEN << >>
    ELSE LET front == unique(SubSeq(ids, 1, Len(ids) - 1))
             last == ids[Len(ids)]
         IN IF \E i \in 1..Len(front) : front[i] = last THEN front
            ELSE Append(front, last)

\* variant: the safety list is not merged in, a failure yields nothing
discoverTrendingHFModels_NoSafety(resp) ==
    IF resp.kind # "listing" THEN << >>
    ELSE LET keep(id) == "gemma-7b" \notin includes(id)
             modelIds == SelectSeq(resp.data, keep)
         IN unique(modelIds)

\* variant: the known-problematic model is kept
discoverTrendingHFModels_NoFilter(resp) ==
    IF resp.kind # "listing" THEN SAFETY_FALLBACK_HF
    ELSE unique(SAFETY_FALLBACK_HF \o resp.data)

discoverTrendingHFModels(resp) ==
    IF resp.kind # "listing" THEN SAFETY_FALLBACK_HF
    ELSE LET keep(id) == "gemma-7b" \notin includes(id)
             modelIds == SelectSeq(resp.data, keep)
         IN unique(SAFETY_FALLBACK_HF \o modelIds)

\* variant: a cache of exactly one hour is refreshed too
isStale_AtOneHour(now) ==
    \/ now - lastDiscoveryTime >= CACHE_DURATION
    \/ Len(cachedOpenRouterModels) = 0

\* the condition of refreshModelCache
isStale(now) ==
    \/ now - lastDiscoveryTime > CACHE_DURATION
    \/ Len(cachedOpenRouterModels) = 0

\* the clock moves in steps of half an hour
HalfHour == CACHE_DURATION \div 2

\* call sites of refreshModelCache whose calls can overlap: the call
\* executeWithFallback does not await, and the awaited call of an adapter
RefreshCallers == {"executeWithFallback", "callOpenRouter"}

\* a call of refreshModelCache: now, where it is, and its two discoveries
Refresh(now, pc) ==
    [now |-> now, pc |-> pc,
     orResp |-> NotYet, orModels |-> << >>, hfResp |-> NotYet, hfModels |-> << >>]

\* the caller has no call of refreshModelCache in flight
Returned_refresh(c) == refreshes[c].pc # "fetching"

\* refreshModelCache is called: nothing to do, or both discoveries start
refreshModelCache_Call ==
    /\ \E c \in RefreshCallers :
         /\ Returned_refresh(c)
         /\ LET now == clock
            IN refreshes' = [refreshes EXCEPT ![c] =
                               Refresh(now, IF isStale(now) THEN "fetching" ELSE "skipped")]
    /\ UNCHANGED <<cachedOpenRouterModels, cachedHuggingFaceModels, lastDiscoveryTime,
                   clock, justWritten>>
    /\ UNCHANGED <<stack, memories, adapterVars, jsonVars, selectVars, streamVars, moreVars>>

\* the OpenRouter discovery of a call settles
discoverFreeOpenRouterModels_Settled ==
    /\ \E c \in RefreshCallers, resp \in OpenRouterDiscoveryResponses :
         /\ refreshes[c].pc = "fetching"
         /\ refreshes[c].orResp = NotYet
         /\ refreshes' = [refreshes EXCEPT ![c].orResp = resp,
                             ![c].orModels = discoverFreeOpenRouterModels(resp)]
    /\ UNCHANGED <<cachedOpenRouterModels, cachedHuggingFaceModels, lastDiscoveryTime,
                   clock, justWritten>>
    /\ UNCHANGED <<stack, memories, adapterVars, jsonVars, selectVars, streamVars, moreVars>>

\* the Hugging Face discovery of a call settles
discoverTrendingHFModels_Settled ==
    /\ \E c \in RefreshCallers, resp \in HuggingFaceDiscoveryResponses :
         /\ refreshes[c].pc = "fetching"
         /\ refreshes[c].hfResp = NotYet
         /\ refreshes' = [refreshes EXCEPT ![c].hfResp = resp,
                             ![c].hfModels = discoverTrendingHFModels(resp)]
    /\ UNCHANGED <<cachedOpenRouterModels, cachedHuggingFaceModels, lastDiscoveryTime,
                   clock, justWritten>>
    /\ UNCHANGED <<stack, memories, adapterVars, jsonVars, selectVars, streamVars, moreVars>>

\* variant: the Hugging Face catalog is written by a later step that never
\* comes
refreshModelCache_Write_OpenRouterOnly ==
    /\ \E c \in RefreshCallers :
         /\ refreshes[c].pc = "fetching"
         /\ refreshes[c].orResp # NotYet
         /\ refreshes[c].hfResp # NotYet
         /\ cachedOpenRouterModels' = refreshes[c].orModels
         /\ lastDiscoveryTime' = refreshes[c].now
         /\ refreshes' = [refreshes EXCEPT ![c] = Refresh(refreshes[c].now, "written")]
    /\ justWritten' = TRUE
    /\ UNCHANGED <<clock, cachedHuggingFaceModels>>
    /\ UNCHANGED <<stack, memories, adapterVars, jsonVars, selectVars, streamVars, moreVars>>

\* after Promise.all: the three assignments, with no await between them
refreshModelCache_Write ==
    /\ \E c \in RefreshCallers :
         /\ refreshes[c].pc = "fetching"
         /\ refreshes[c].orResp # NotYet
         /\ refreshes[c].hfResp # NotYet
         /\ cachedOpenRouterModels' = refreshes[c].orModels
         /\ cachedHuggingFaceModels' = refreshes[c].hfModels
         /\ lastDiscoveryTime' = refreshes[c].now
         /\ refreshes' = [refreshes EXCEPT ![c] = Refresh(refreshes[c].now, "written")]
    /\ justWritten' = TRUE
    /\ UNCHANGED clock
    /\ UNCHANGED <<stack, memories, adapterVars, jsonVars, selectVars, streamVars, moreVars>>

\* time passes
Tick ==
    /\ clock + HalfHour <= ClockStart + MaxTicks * HalfHour
    /\ clock' = clock + HalfHour
    /\ justWritten' = FALSE
    /\ UNCHANGED <<cachedOpenRouterModels, cachedHuggingFaceModels, lastDiscoveryTime,
                   refreshes>>
    /\ UNCHANGED <<stack, memories, adapterVars, jsonVars, selectVars, streamVars, moreVars>>

\* ---- the JSON extractor ----

\* a text is a sequence of tokens: the JSON punctuation, the double quote, a
\* number literal, a word, white space, and the fence marker of a code block
\* (three backquotes)
Quote == "<quote>"
Fence == "<fence>"
Space == " "

\* a parsed value: number, string (its content), array (its elements), object
\* (its members, each a key with one value)
Node(t, s, e) == [t |-> t, s |-> s, e |-> e]
Num == Node("number", << >>, << >>)
Str(content) == Node("string", content, << >>)
Arr(elements) == Node("array", << >>, elements)
Member(key, value) == Node("member", key, <<value>>)
Obj(members) == Node("object", << >>, members)
NoValue == Node("none", << >>, << >>)

\* JSON.stringify
RECURSIVE serialize(_)
RECURSIVE serializeAll(_)
serialize(v) ==
    CASE v.t = "number" -> <<"1">>
      [] v.t = "string" -> <<Quote>> \o v.s \o <<Quote>>
      [] v.t = "array" -> <<"[">> \o serializeAll(v.e) \o <<"]">>
      [] v.t = "object" -> <<"{">> \o serializeAll(v.e) \o <<"}">>
      [] v.t = "member" -> <<Quote>> \o v.s \o <<Quote, ":">> \o serialize(v.e[1])

serializeAll(vs) ==
    IF Len(vs) = 0 THEN << >>
    ELSE IF Len(vs) = 1 THEN serialize(vs[1])
    ELSE serialize(vs[1]) \o <<",">> \o serializeAll(Tail(vs))

\* the parser of JSON.parse: white space is skipped between tokens
RECURSIVE skipSpace(_, _)
skipSpace(toks, i) ==
    IF i <= Len(toks) /\ toks[i] = Space THEN skipSpace(toks, i + 1) ELSE i

Parsed(value, next) == [ok |-> TRUE, val |-> value, next |-> next]
SyntaxError == [ok |-> FALSE, val |-> NoValue, next |-> 0]

\* a string literal starts at toks[i]: it ends at the next double quote
parseString(toks, i) ==
    IF \E j \in (i + 1)..Len(toks) : toks[j] = Quote
    THEN LET j == CHOOSE j \in (i + 1)..Len(toks) :
                    /\ toks[j] = Quote
                    /\ \A m \in (i + 1)..(j - 1) : toks[m] # Quote
         IN Parsed(Str(SubSeq(toks, i + 1, j - 1)), j + 1)
    ELSE SyntaxError

\* a later member of the same key replaces the value of the earlier one
setMember(members, key, value) ==
    IF \E m \in 1..Len(members) : members[m].s = key
    THEN [m \in 1..Len(members) |->
            IF members[m].s = key THEN Member(key, value) ELSE members[m]]
    ELSE Append(members, Member(key, value))

RECURSIVE parseValue(_, _)
RECURSIVE parseElements(_, _, _)
RECURSIVE parseMembers(_, _, _)
parseValue(toks, from) ==
    LET i == skipSpace(toks, from)
    IN IF i > Len(toks) THEN SyntaxError
       ELSE CASE toks[i] = "1" -> Parsed(Num, i + 1)
              [] toks[i] = Quote -> parseString(toks, i)
              [] toks[i] = "[" -> parseElements(toks, i + 1, << >>)
              [] toks[i] = "{" -> parseMembers(toks, i + 1, << >>)
              [] OTHER -> SyntaxError

parseElements(toks, from, acc) ==
    LET i == skipSpace(toks, from)
    IN IF i > Len(toks) THEN SyntaxError
       ELSE IF toks[i] = "]" /\ Len(acc) = 0 THEN Parsed(Arr(acc), i + 1)
       ELSE LET r == parseValue(toks, i)
                k == skipSpace(toks, r.next)
            IN IF ~r.ok \/ k > Len(toks) THEN SyntaxError
               ELSE IF toks[k] = "]" THEN Parsed(Arr(Append(acc, r.val)), k + 1)
               ELSE IF toks[k] = "," THEN parseElements(toks, k + 1, Append(acc, r.val))
               ELSE SyntaxError

parseMembers(toks, from, acc) ==
    LET i == skipSpace(toks, from)
    IN IF i > Len(toks) THEN SyntaxError
       ELSE IF toks[i] = "}" /\ Len(acc) = 0 THEN Parsed(Obj(acc), i + 1)
       ELSE IF toks[i] # Quote THEN SyntaxError
       ELSE LET key == parseString(toks, i)
                colon == skipSpace(toks, key.next)
            IN IF ~key.ok \/ colon > Len(toks) THEN SyntaxError
               ELSE IF toks[colon] # ":" THEN SyntaxError
               ELSE LET r == parseValue(toks, colon + 1)
                        k == skipSpace(toks, r.next)
                        members == setMember(acc, key.val.s, r.val)
                    IN IF ~r.ok \/ k > Len(toks) THEN SyntaxError
                       ELSE IF toks[k] = "}" THEN Parsed(Obj(members), k + 1)
                       ELSE IF toks[k] = "," THEN parseMembers(toks, k + 1, members)
                       ELSE SyntaxError

\* JSON.parse(text): one value, and nothing but white space behind it
JSONparse(toks) ==
    LET r == parseValue(toks, 1)
    IN IF r.ok /\ skipSpace(toks, r.next) > Len(toks) THEN r ELSE SyntaxError

\* text.indexOf(c) and text.lastIndexOf(c); 0 stands for -1
indexOf(toks, c) ==
    IF \E i \in 1..Len(toks) : toks[i] = c
    THEN CHOOSE i \in 1..Len(toks) : toks[i] = c /\ \A m \in 1..(i - 1) : toks[m] # c
    ELSE 0

lastIndexOf(toks, c) ==
    IF \E i \in 1..Len(toks) : toks[i] = c
    THEN CHOOSE i \in 1..Len(toks) : toks[i] = c /\ \A m \in (i + 1)..Len(toks) : toks[m] # c
    ELSE 0

\* text.substring(start, end + 1) of the two heuristics, when end > start
substring(toks, open, close) ==
    LET start == indexOf(toks, open)
        end == lastIndexOf(toks, close)
    IN IF start # 0 /\ end # 0 /\ end > start
       THEN [found |-> TRUE, text |-> SubSeq(toks, start, end)]
       ELSE [found |-> FALSE, text |-> << >>]

\* the text without the white space at its end
RECURSIVE trimEnd(_)
trimEnd(toks) ==
    IF Len(toks) > 0 /\ toks[Len(toks)] = Space
    THEN trimEnd(SubSeq(toks, 1, Len(toks) - 1))
    ELSE toks

\* variant: the tag is not skipped
codeBlockMatch_TagKept(toks) ==
    LET open == indexOf(toks, Fence)
        closes == {j \in (open + 1)..Len(toks) : toks[j] = Fence}
    IN IF open = 0 \/ closes = {}
       THEN [found |-> FALSE, text |-> << >>]
       ELSE LET close == CHOOSE j \in closes : \A m \in closes : j <= m
                start == skipSpace(SubSeq(toks, 1, close - 1), open + 1)
            IN [found |-> TRUE, text |-> trimEnd(SubSeq(toks, start, close - 1))]

\* text.match(fence (?:json)? \s* ([\s\S]*?) \s* fence), a fence being three
\* backquotes: the leftmost fence marker that has another behind it opens the
\* block, the tag and the white space behind it are skipped, and the group
\* ends before the white space in front of the next marker
codeBlockMatch(toks) ==
    LET open == indexOf(toks, Fence)
        afterTag == IF open + 1 <= Len(toks) /\ toks[open + 1] = "json"
                    THEN open + 2 ELSE open + 1
        closes == {j \in (open + 1)..Len(toks) : toks[j] = Fence}
    IN IF open = 0 \/ closes = {}
       THEN [found |-> FALSE, text |-> << >>]
       ELSE LET close == CHOOSE j \in closes : \A m \in closes : j <= m
                start == skipSpace(SubSeq(toks, 1, close - 1), afterTag)
            IN [found |-> TRUE, text |-> trimEnd(SubSeq(toks, start, close - 1))]

\* the outcome of sanitizeAndParseJson: the value an attempt gave, or the
\* thrown error; Running while the call has not returned
Value(v, attempt) == [raised |-> FALSE, val |-> v, attempt |-> attempt]
ParseFailure == [raised |-> TRUE, val |-> NoValue, attempt |-> "none"]
Running == [raised |-> FALSE, val |-> NoValue, attempt |-> "none"]

\* variant: the bracket heuristic comes before the brace heuristic
sanitizeAndParseJson_ArrayFirst(text) ==
    LET whole == [found |-> TRUE, text |-> text]
        block == codeBlockMatch(text)
        braces == substring(text, "{", "}")
        brackets == substring(text, "[", "]")
        parses(candidate) == candidate.found /\ JSONparse(candidate.text).ok
    IN IF parses(whole) THEN Value(JSONparse(whole.text).val, "whole")
       ELSE IF parses(block) THEN Value(JSONparse(block.text).val, "codeBlock")
       ELSE IF parses(brackets) THEN Value(JSONparse(brackets.text).val, "brackets")
       ELSE IF parses(braces) THEN Value(JSONparse(braces.text).val, "braces")
       ELSE ParseFailure

\* the four attempts, each in its try block, and the throw behind them
sanitizeAndParseJson(text) ==
    LET whole == [found |-> TRUE, text |-> text]
        block == codeBlockMatch(text)
        braces == substring(text, "{", "}")
        brackets == substring(text, "[", "]")
        parses(candidate) == candidate.found /\ JSONparse(candidate.text).ok
    IN IF parses(whole) THEN Value(JSONparse(whole.text).val, "whole")
       ELSE IF parses(block) THEN Value(JSONparse(block.text).val, "codeBlock")
       ELSE IF parses(braces) THEN Value(JSONparse(braces.text).val, "braces")
       ELSE IF parses(brackets) THEN Value(JSONparse(brackets.text).val, "brackets")
       ELSE ParseFailure

\* a call of sanitizeAndParseJson returns or throws
sanitizeAndParseJson_Call ==
    /\ jsonResult = Running
    /\ jsonResult' = sanitizeAndParseJson(jsonInput.text)
    /\ UNCHANGED jsonInput
    /\ UNCHANGED <<stack, memories, adapterVars, cacheVars, selectVars, streamVars, moreVars>>

\* the values whose serialized form the extractor is given
JsonValues ==
    { Num,
      Str(<<"w">>),
      Str(<<"{", "}">>),
      Str(<<Fence, "1", Fence>>),
      Arr(<< >>),
      Arr(<<Num, Num>>),
      Arr(<<Obj(<<Member(<<"k">>, Num)>>)>>),
      Arr(<<Obj(<<Member(<<"k">>, Num)>>), Obj(<<Member(<<"k">>, Num)>>)>>),
      Arr(<<Str(<<"{">>), Str(<<"}">>)>>),
      Obj(<< >>),
      Obj(<<Member(<<"k">>, Num)>>),
      Obj(<<Member(<<"k">>, Arr(<<Num>>)), Member(<<"m">>, Obj(<< >>))>>),
      Obj(<<Member(<<"k">>, Str(<<Fence, "1", Fence>>))>>),
      Obj(<<Member(<<"k">>, Str(<<"}">>))>>) }

\* what is put around the serialized form: nothing, a fenced code block with
\* or without tag, and prose in front and behind
Wrapping(kind, before, after) == [kind |-> kind, before |-> before, after |-> after]
Wrappings ==
    { Wrapping("plain", << >>, << >>),
      Wrapping("fenced", <<Fence, "json", Space>>, <<Space, Fence>>),
      Wrapping("fenced", <<Fence, Space>>, <<Space, Fence>>),
      Wrapping("fenced", <<"w", Space, Fence, "json", Space>>, <<Space, Fence, Space, "w">>),
      Wrapping("prose", <<"w", Space>>, <<Space, "w">>),
      Wrapping("prose", <<"w", "[", "1", "]", Space>>, <<Space, "w">>),
      Wrapping("prose", <<"w", "{", "w", "}", Space>>, <<Space, "w">>),
      Wrapping("prose", <<"w", Space>>, <<Space, "w", Fence>>) }

\* texts that are no wrapped value: plain text, broken JSON, an unclosed
\* fence, two code blocks, an object behind an array
RawTexts ==
    { <<"w", Space, "w">>,
      << >>,
      <<"{", Quote, "k", Quote, ":", "1">>,
      <<"[", "1", ",", "]">>,
      <<Fence, "json", Space, "{", "}">>,
      <<Fence, Space, "w", Space, Fence, Space, Fence, "[", "1", "]", Fence>>,
      <<Fence, "w", Fence, Space, "w", "{", "}", "w", "[", "]">>,
      <<"w", "[", "1", "]", "w", "{", "}", "w">>,
      <<Fence, "w", Fence, Space, "{", "1", "}", Space, "[", "1", "]">>,
      <<"}", "{", "]", "[">>,
      <<Space, "[", Space, "1", Space, "]", Space>> }

JsonInput(v, wrapping, toks) == [value |-> v, wrapping |-> wrapping, text |-> toks]
JsonInputs ==
    {JsonInput(v, w, w.before \o serialize(v) \o w.after) :
        v \in JsonValues, w \in Wrappings}
    \cup {JsonInput(NoValue, Wrapping("raw", << >>, << >>), toks) : toks \in RawTexts}

\* ---- the choice of the Swarm models ----

\* the models a catalog is made of, in the order they are listed
CatalogPool ==
    <<"microsoft/phi-3-medium-128k-instruct:free",
      "qwen/qwen-2.5-coder-32b-instruct:free",
      "deepseek/deepseek-r1:free",
      "google/gemini-2.0-flash-lite-preview-02-05:free",
      "meta-llama/llama-3.3-70b-instruct:free",
      "mistralai/mistral-7b-instruct:free",
      "openai/gpt-oss-20b:free">>

\* the entries of the pool at the places in S, in the order of the pool
Listed(S) ==
    LET upTo[i \in 0..Len(CatalogPool)] ==
          IF i = 0 THEN << >>
          ELSE IF i \in S THEN Append(upTo[i - 1], CatalogPool[i]) ELSE upTo[i - 1]
    IN upTo[Len(CatalogPool)]

\* the catalogs selectSwarmModels is given: every non-empty selection of the
\* pool, and the short ones with every entry listed twice
SwarmCatalogs ==
    LET listings == {Listed(S) : S \in (SUBSET (1..Len(CatalogPool))) \ {{}}}
    IN listings \cup {c \o c : c \in {l \in listings : Len(l) <= 2}}

\* the prompts: the words of each
SwarmPrompts ==
    { <<"write", "a", "function">>,
      <<"Explain", "why">>,
      <<"explain", "this", "code">>,
      <<"hello">> }

toLowerCase(word) == IF word = "Explain" THEN "explain" ELSE word

\* lowerPrompt.includes(word)
promptIncludes(prompt, word) ==
    \E i \in 1..Len(prompt) : toLowerCase(prompt[i]) = word

\* availableModels.filter(m => m.includes(a) || m.includes(b) || ...)
filterIncludes(models, markers) ==
    LET matches(m) == includes(m) \cap markers # {}
    IN SelectSeq(models, matches)

\* list.slice(0, n)
slice(list, n) == SubSeq(list, 1, IF Len(list) < n THEN Len(list) ELSE n)

\* for (const m of availableModels) { if (selected.size >= 5) break; selected.add(m); }
RECURSIVE fill(_, _)
fill(selected, models) ==
    IF Len(models) = 0 \/ Len(selected) >= 5 THEN selected
    ELSE fill(unique(Append(selected, Head(models))), Tail(models))

\* variant: the loop that fills the remaining slots is left out
selectSwarmModels_NoFill(prompt, availableModels) ==
    IF Len(availableModels) = 0 THEN slice(SAFETY_FALLBACK_OPENROUTER, 3)
    ELSE LET isCoding == \E w \in {"code", "function", "script", "html"} :
                            promptIncludes(prompt, w)
             isReasoning == \E w \in {"why", "explain", "solve", "think"} :
                               promptIncludes(prompt, w)
             codingModels == filterIncludes(availableModels, {"coder", "deepseek", "flash"})
             reasoningModels == filterIncludes(availableModels, {"r1", "llama", "mistral"})
             byPrompt == IF isCoding THEN slice(codingModels, 2)
                         ELSE IF isReasoning THEN slice(reasoningModels, 2)
                         ELSE << >>
             selected == unique(byPrompt
                                \o slice(filterIncludes(availableModels, {"llama-3"}), 1)
                                \o slice(filterIncludes(availableModels, {"gemini"}), 1)
                                \o slice(filterIncludes(availableModels, {"mistral"}), 1))
         IN slice(selected, 5)

selectSwarmModels(prompt, availableModels) ==
    IF Len(availableModels) = 0 THEN slice(SAFETY_FALLBACK_OPENROUTER, 3)
    ELSE LET isCoding == \E w \in {"code", "function", "script", "html"} :
                            promptIncludes(prompt, w)
             isReasoning == \E w \in {"why", "explain", "solve", "think"} :
                               promptIncludes(prompt, w)
             codingModels == filterIncludes(availableModels, {"coder", "deepseek", "flash"})
             reasoningModels == filterIncludes(availableModels, {"r1", "llama", "mistral"})
             byPrompt == IF isCoding THEN slice(codingModels, 2)
                         ELSE IF isReasoning THEN slice(reasoningModels, 2)
                         ELSE << >>
             selected == unique(byPrompt
                                \o slice(filterIncludes(availableModels, {"llama-3"}), 1)
                                \o slice(filterIncludes(availableModels, {"gemini"}), 1)
                                \o slice(filterIncludes(availableModels, {"mistral"}), 1))
         IN slice(fill(selected, availableModels), 5)

\* the result of a call that has not returned
NotSelected == <<"<pending>">>

\* a call of selectSwarmModels returns
selectSwarmModels_Call ==
    /\ selectResult = NotSelected
    /\ selectResult' = selectSwarmModels(selectInput.prompt, selectInput.availableModels)
    /\ UNCHANGED selectInput
    /\ UNCHANGED <<stack, memories, adapterVars, cacheVars, jsonVars, streamVars, moreVars>>

\* ---- streaming: the chunks a call of executeWithFallback delivers ----

\* the chunks a stream can carry
Chunks == {"a", "b"}

\* the two status messages executeOpenRouterSwarm hands to onChunk
SwarmActivated == "<Swarm Activated: querying the models>"
SwarmReceived == "<Received responses: synthesizing the final answer>"

\* the policies of the streamed call: it has no files and no jsonMode, and a
\* provider of its own
StreamPolicies == {s \in SettingsSet : s.provider # "hybrid"}

\* executeWithFallback has reached its trial list; level "synthesis" is the
\* call executeOpenRouterSwarm returns, level "top" the call of the application
Trial(settings, level) ==
    [settings |-> settings, level |-> level, providers |-> providers(settings),
     idx |-> 1, tries |-> 0, fullResponse |-> << >>, res |-> NoRes]

\* the entry of the call: the Swarm attempt hands its first message to
\* onChunk and starts its calls, or the trial list is built
executeWithFallback_Streamed_Start ==
    /\ streamPc = "start"
    /\ IF streamSettings.isComplexTaskMode /\ hasOpenRouter(streamSettings)
       THEN /\ streamPc' = "await_all"
            /\ delivered' = Append(delivered, SwarmActivated)
       ELSE /\ streamPc' = "loop"
            /\ UNCHANGED delivered
    /\ UNCHANGED streamCall
    /\ UNCHANGED <<streamSettings, stack, memories, adapterVars, cacheVars, jsonVars, selectVars, moreVars>>

\* after Promise.all of the Swarm, whose calls are given no onChunk: no
\* successful response and the Swarm throws into the catch of the caller, or
\* the second message is handed to onChunk and the synthesis call starts
executeOpenRouterSwarm_Streamed_Gather ==
    /\ streamPc = "await_all"
    /\ \E successful \in BOOLEAN :
         IF successful
         THEN /\ delivered' = Append(delivered, SwarmReceived)
              /\ streamCall' = Trial(SwarmSynthesisSettings(streamSettings), "synthesis")
              /\ streamPc' = "loop"
         ELSE /\ streamPc' = "loop"
              /\ UNCHANGED <<delivered, streamCall>>
    /\ UNCHANGED <<streamSettings, stack, memories, adapterVars, cacheVars, jsonVars, selectVars, moreVars>>

\* the catch of the trial loop
StreamCaught(call) == [call EXCEPT !.idx = call.idx + 1, !.tries = 0, !.fullResponse = << >>]

\* one iteration of the trial loop, up to the request of the adapter
executeWithFallback_Streamed_Try ==
    /\ streamPc = "loop"
    /\ streamCall.idx <= Len(streamCall.providers)
    /\ LET p == currentProvider(streamCall)
           noKeys == IF p = "openrouter"
                     THEN Len(getOpenRouterKeys(streamCall.settings)) = 0
                     ELSE Len(getHuggingFaceKeys(streamCall.settings)) = 0
       IN IF p # "gemini" /\ noKeys
          THEN streamCall' = StreamCaught(streamCall) /\ UNCHANGED streamPc
          ELSE /\ streamPc' = IF p = "huggingface" THEN "await_text" ELSE "reading"
               /\ streamCall' = [streamCall EXCEPT !.fullResponse = << >>]
    /\ UNCHANGED delivered
    /\ UNCHANGED <<streamSettings, stack, memories, adapterVars, cacheVars, jsonVars, selectVars, moreVars>>

\* the stream yields a chunk: onChunk(chunk); fullResponse += chunk
onChunk_Chunk ==
    /\ streamPc = "reading"
    /\ Len(streamCall.fullResponse) < MaxChunks
    /\ \E chunk \in Chunks :
         /\ delivered' = Append(delivered, chunk)
         /\ streamCall' = [streamCall EXCEPT !.fullResponse = Append(@, chunk)]
    /\ UNCHANGED streamPc
    /\ UNCHANGED <<streamSettings, stack, memories, adapterVars, cacheVars, jsonVars, selectVars, moreVars>>

\* the stream ends: return { text: fullResponse }, which the trial loop and
\* the Swarm return as it is
Stream_Done ==
    /\ streamPc = "reading"
    /\ streamCall' = [streamCall EXCEPT !.res = Ok(streamCall.fullResponse)]
    /\ streamPc' = "done"
    /\ UNCHANGED delivered
    /\ UNCHANGED <<streamSettings, stack, memories, adapterVars, cacheVars, jsonVars, selectVars, moreVars>>

\* the request or the stream fails, before or between chunks: callGemini
\* throws into the catch of the trial loop; callOpenRouter catches and goes on
\* with its next credential or model, and throws when it has none left
Stream_Throws ==
    /\ streamPc = "reading"
    /\ IF currentProvider(streamCall) = "openrouter" /\ streamCall.tries + 1 < MaxModels
       THEN /\ streamCall' = [streamCall EXCEPT !.tries = @ + 1, !.fullResponse = << >>]
            /\ UNCHANGED streamPc
       ELSE /\ streamCall' = StreamCaught(streamCall)
            /\ streamPc' = "loop"
    /\ UNCHANGED delivered
    /\ UNCHANGED <<streamSettings, stack, memories, adapterVars, cacheVars, jsonVars, selectVars, moreVars>>

\* callHuggingFace is given no onChunk: it returns its text or throws
callHuggingFace_Streamed_Settled ==
    /\ streamPc = "await_text"
    /\ \E o \in callHuggingFace :
         IF o = "text"
         THEN /\ streamCall' = [streamCall EXCEPT !.res = Ok(<<"a", "b">>)]
              /\ streamPc' = "done"
         ELSE /\ streamCall' = StreamCaught(streamCall)
              /\ streamPc' = "loop"
    /\ UNCHANGED delivered
    /\ UNCHANGED <<streamSettings, stack, memories, adapterVars, cacheVars, jsonVars, selectVars, moreVars>>

\* the list is exhausted: the synthesis call throws through the Swarm into the
\* catch of the top call, which builds its own list; the top call raises
executeWithFallback_Streamed_Exhausted ==
    /\ streamPc = "loop"
    /\ streamCall.idx > Len(streamCall.providers)
    /\ IF streamCall.level = "synthesis"
       THEN /\ streamCall' = Trial(streamSettings, "top")
            /\ UNCHANGED streamPc
       ELSE /\ streamCall' = [streamCall EXCEPT !.res = Err(AllFailed(<<"last error">>))]
            /\ streamPc' = "done"
    /\ UNCHANGED delivered
    /\ UNCHANGED <<streamSettings, stack, memories, adapterVars, cacheVars, jsonVars, selectVars, moreVars>>

\* ---- the streaming loop of callOpenRouter ----

\* the pieces of text a response body is made of; the data marker is two
\* pieces, so that a network chunk can end inside it
Newline == "<newline>"
CarriageReturn == "<return>"
DataMarker == <<"da", "ta: ">>
Sentinel == "[DONE]"

\* an event line that carries the text delta c: data: {choices: [{delta: {content: c}}]}
DataLine(c) == DataMarker \o <<"{", c, "}">>

\* the event lines of a body: deltas (one of them empty), the sentinel with and
\* without a carriage return, the blank line between events, a comment line
EventLines ==
    {DataLine("a"), DataLine("b"), DataLine(""),
     DataMarker \o <<Sentinel>>, DataMarker \o <<Sentinel, CarriageReturn>>,
     << >>, <<": ping">>}

\* the lines joined by newlines; the last line is followed by one if terminated
RECURSIVE join(_, _)
join(lines, terminated) ==
    IF Len(lines) = 0 THEN << >>
    ELSE IF Len(lines) = 1
         THEN IF terminated THEN lines[1] \o <<Newline>> ELSE lines[1]
         ELSE lines[1] \o <<Newline>> \o join(Tail(lines), terminated)

\* buffer.split('\n'): the pieces between the newlines, at least one
RECURSIVE split(_)
split(text) ==
    IF \A i \in 1..Len(text) : text[i] # Newline THEN <<text>>
    ELSE LET i == CHOOSE j \in 1..Len(text) :
                    text[j] = Newline /\ \A k \in 1..(j - 1) : text[k] # Newline
         IN <<SubSeq(text, 1, i - 1)>> \o split(SubSeq(text, i + 1, Len(text)))

\* line.startsWith('data: ')
startsWith(line, marker) ==
    Len(line) >= Len(marker) /\ SubSeq(line, 1, Len(marker)) = marker

\* dataStr.trim()
RECURSIVE trim(_)
trim(text) ==
    IF Len(text) > 0 /\ text[1] = CarriageReturn THEN trim(Tail(text))
    ELSE IF Len(text) > 0 /\ text[Len(text)] = CarriageReturn
         THEN trim(SubSeq(text, 1, Len(text) - 1))
         ELSE text

\* JSON.parse(dataStr) and data.choices[0]?.delta?.content: the delta, or
\* nothing when the text is no JSON value (the exception is swallowed)
NoDelta == ""
deltaContent(dataStr) ==
    LET t == trim(dataStr)
    IN IF Len(t) = 3 /\ t[1] = "{" /\ t[3] = "}" THEN t[2] ELSE NoDelta

\* what one line adds to the deltas handed on: for (const line of lines) { ... }
chunkOf(line) ==
    IF ~startsWith(line, DataMarker) THEN << >>
    ELSE LET dataStr == SubSeq(line, Len(DataMarker) + 1, Len(line))
         IN IF trim(dataStr) = <<Sentinel>> THEN << >>
            ELSE IF deltaContent(dataStr) # NoDelta
                 THEN <<deltaContent(dataStr)>>
                 ELSE << >>

\* the deltas of a list of lines, in order
RECURSIVE chunksOf(_)
chunksOf(lines) ==
    IF Len(lines) = 0 THEN << >> ELSE chunkOf(lines[1]) \o chunksOf(Tail(lines))

\* reader.read() hands out the next network chunk: the buffer is split into
\* lines, the last piece stays in the buffer, every other line is looked at
reader_read ==
    /\ ssePc = "reading"
    /\ ssePos < Len(sseInput.body)
    /\ \E n \in 1..(Len(sseInput.body) - ssePos) :
         LET value == SubSeq(sseInput.body, ssePos + 1, ssePos + n)
             lines == split(sseBuffer \o value)
             whole == SubSeq(lines, 1, Len(lines) - 1)
         IN /\ ssePos' = ssePos + n
            /\ sseBuffer' = lines[Len(lines)]
            /\ sseDelivered' = sseDelivered \o chunksOf(whole)
            /\ sseFullResponse' = sseFullResponse \o chunksOf(whole)
    /\ UNCHANGED <<sseInput, ssePc>>
    /\ UNCHANGED exceptSse

\* reader.read() reports the end of the body: return { text: fullResponse }
reader_done ==
    /\ ssePc = "reading"
    /\ ssePos = Len(sseInput.body)
    /\ ssePc' = "done"
    /\ UNCHANGED <<sseInput, ssePos, sseBuffer, sseDelivered, sseFullResponse>>
    /\ UNCHANGED exceptSse

\* the response bodies: up to MaxLines event lines, the last one with or
\* without its newline
SseInput(lines, terminated) ==
    [lines |-> lines, terminated |-> terminated, body |-> join(lines, terminated)]

SseInputs ==
    {SseInput(lines, terminated) :
       lines \in UNION {[1..n -> EventLines] : n \in 0..MaxLines},
       terminated \in BOOLEAN}

\* ---- the requests: history and prompt in the wire shape of each provider ----

\* a message of the history, and a turn of a request
Turn(role, text) == [role |-> role, text |-> text]

\* the histories of a call: up to MaxTurns messages of the user and the assistant
Histories ==
    UNION {[1..n -> {Turn(sender, text) : sender \in {"user", "ai"}, text \in {"t1", "t2"}}] :
             n \in 0..MaxTurns}

\* history.map(f)
map(history, f(_)) == [i \in 1..Len(history) |-> f(history[i])]

\* the contents of the Gemini request of the trial loop
geminiContents(history, prompt) ==
    LET part(msg) == Turn(IF msg.role = "user" THEN "user" ELSE "model", msg.text)
    IN map(history, part) \o <<Turn("user", prompt)>>

\* the messages of the OpenRouter request of the trial loop and of the Swarm
openRouterMessages(history, prompt) ==
    LET message(msg) == Turn(IF msg.role = "user" THEN "user" ELSE "assistant", msg.text)
    IN <<Turn("system", "instruction")>> \o map(history, message) \o <<Turn("user", prompt)>>

\* the prompt of the Hugging Face request of the trial loop, line by line
promptWithContext(history, prompt) ==
    LET line(m) == Turn(m.role, m.text)
    IN map(history, line) \o <<Turn("User", prompt)>>

\* the argument of the parallel calls of the Hybrid Engine
promptAlone(prompt) == <<Turn("user", prompt)>>

\* the places where a request is built
TrialSites == {"executeWithFallback/gemini", "executeWithFallback/openrouter",
               "executeWithFallback/huggingface"}
SwarmSites == {"executeOpenRouterSwarm"}
HybridSites == {"getMultiModelResponse/gemini", "getMultiModelResponse/openrouter",
                "getMultiModelResponse/huggingface"}
Sites == TrialSites \cup SwarmSites \cup HybridSites

\* no request yet
NotSent == <<Turn("none", "<not sent>")>>

\* the trial loop calls callGemini
executeWithFallback_Gemini_Request ==
    /\ wireRequests["executeWithFallback/gemini"] = NotSent
    /\ wireRequests' = [wireRequests EXCEPT !["executeWithFallback/gemini"] = geminiContents(wireHistory, wirePrompt)]
    /\ UNCHANGED <<wireHistory, wirePrompt>>
    /\ UNCHANGED exceptWire

\* the trial loop calls callOpenRouter
executeWithFallback_OpenRouter_Request ==
    /\ wireRequests["executeWithFallback/openrouter"] = NotSent
    /\ wireRequests' = [wireRequests EXCEPT !["executeWithFallback/openrouter"] = openRouterMessages(wireHistory, wirePrompt)]
    /\ UNCHANGED <<wireHistory, wirePrompt>>
    /\ UNCHANGED exceptWire

\* the trial loop calls callHuggingFace
executeWithFallback_HuggingFace_Request ==
    /\ wireRequests["executeWithFallback/huggingface"] = NotSent
    /\ wireRequests' = [wireRequests EXCEPT !["executeWithFallback/huggingface"] = promptWithContext(wireHistory, wirePrompt)]
    /\ UNCHANGED <<wireHistory, wirePrompt>>
    /\ UNCHANGED exceptWire

\* the Swarm calls callOpenRouter for its models, with one list of messages
executeOpenRouterSwarm_Request ==
    /\ wireRequests["executeOpenRouterSwarm"] = NotSent
    /\ wireRequests' = [wireRequests EXCEPT !["executeOpenRouterSwarm"] = openRouterMessages(wireHistory, wirePrompt)]
    /\ UNCHANGED <<wireHistory, wirePrompt>>
    /\ UNCHANGED exceptWire

\* the Hybrid Engine calls callGemini
getMultiModelResponse_Gemini_Request ==
    /\ wireRequests["getMultiModelResponse/gemini"] = NotSent
    /\ wireRequests' = [wireRequests EXCEPT !["getMultiModelResponse/gemini"] = promptAlone(wirePrompt)]
    /\ UNCHANGED <<wireHistory, wirePrompt>>
    /\ UNCHANGED exceptWire

\* the Hybrid Engine calls callOpenRouter
getMultiModelResponse_OpenRouter_Request ==
    /\ wireRequests["getMultiModelResponse/openrouter"] = NotSent
    /\ wireRequests' = [wireRequests EXCEPT !["getMultiModelResponse/openrouter"] = promptAlone(wirePrompt)]
    /\ UNCHANGED <<wireHistory, wirePrompt>>
    /\ UNCHANGED exceptWire

\* the Hybrid Engine calls callHuggingFace
getMultiModelResponse_HuggingFace_Request ==
    /\ wireRequests["getMultiModelResponse/huggingface"] = NotSent
    /\ wireRequests' = [wireRequests EXCEPT !["getMultiModelResponse/huggingface"] = promptAlone(wirePrompt)]
    /\ UNCHANGED <<wireHistory, wirePrompt>>
    /\ UNCHANGED exceptWire

\* ---- the entry of callOpenRouter: the models to try ----

\* the identifiers a catalog is made of
EntryIds ==
    {"deepseek/deepseek-r1:free", "qwen/qwen-2.5-coder-32b-instruct:free",
     "mistralai/mistral-7b-instruct:free", "meta-llama/llama-3.3-70b-instruct:free"}

\* the catalogs: up to MaxCatalog identifiers, none twice, in any order
EntryCatalogs ==
    {c \in UNION {[1..n -> EntryIds] : n \in 1..MaxCatalog} :
       \A i, j \in 1..Len(c) : c[i] = c[j] => i = j}

\* m.content.includes(word), for the contents of the messages
contentIncludes(content) ==
    CASE content = "fix this code" -> {"code"}
      [] content = "define a function" -> {"function"}
      [] OTHER -> {}

\* the lists of messages: one or two contents
EntryMessages ==
    UNION {[1..n -> {"write a poem", "fix this code", "define a function"}] : n \in 1..2}

\* messages.some(m => m.content.includes('code') || m.content.includes('function'))
isCoding(messages) ==
    \E i \in 1..Len(messages) :
      "code" \in contentIncludes(messages[i]) \/ "function" \in contentIncludes(messages[i])

\* a.includes('coder') || a.includes('deepseek')
isCode(id) == "coder" \in includes(id) \/ "deepseek" \in includes(id)

\* models.sort((a, b) => bCode - aCode): a stable sort, the models with the
\* mark first
sortCodeFirst(models) ==
    SelectSeq(models, isCode) \o SelectSeq(models, LAMBDA id : ~isCode(id))

\* variant: the catalog itself is sorted, no copy is made
callOpenRouter_Entry_InPlace ==
    /\ adapterPc = "entry"
    /\ LET sorted == IF isCoding(entryInput.messages)
                     THEN sortCodeFirst(cachedOpenRouterModels)
                     ELSE cachedOpenRouterModels
       IN IF specificModel # NoModel
          THEN modelsToTry' = <<specificModel>> /\ UNCHANGED cachedOpenRouterModels
          ELSE modelsToTry' = sorted /\ cachedOpenRouterModels' = sorted
    /\ adapterPc' = "loop"
    /\ UNCHANGED <<adapter, specificModel, apiKeyList, modelIdx, keyIdx, adapterLastError,
                   requests, outcome>>
    /\ UNCHANGED <<cachedHuggingFaceModels, lastDiscoveryTime, clock, refreshes, justWritten>>
    /\ UNCHANGED <<stack, memories, jsonVars, selectVars, streamVars, moreVars>>

\* the call up to `let lastError`: the list of the models to try
callOpenRouter_Entry ==
    /\ adapterPc = "entry"
    /\ modelsToTry' =
         IF specificModel # NoModel THEN ModelsToTry(specificModel, cachedOpenRouterModels)
         ELSE IF isCoding(entryInput.messages)
              THEN sortCodeFirst(ModelsToTry(specificModel, cachedOpenRouterModels))
              ELSE ModelsToTry(specificModel, cachedOpenRouterModels)
    /\ adapterPc' = "loop"
    /\ UNCHANGED <<adapter, specificModel, apiKeyList, modelIdx, keyIdx, adapterLastError,
                   requests, outcome>>
    /\ UNCHANGED <<cacheVars, stack, memories, jsonVars, selectVars, streamVars, moreVars>>

\* ---- the sandbox: executeSkillInSandbox on the shared worker ----

\* what the code of a skill does in the worker: it returns, it throws, it
\* returns a promise, or it fails outside the try of the worker
SkillKinds == {"returns", "throws", "promise", "uncaught"}

\* a call of executeSkillInSandbox: where its promise is, and whose outcome it
\* has settled with
SkillCall(kind) == [kind |-> kind, pc |-> "idle", of |-> 0, settled |-> "none"]

\* the events the worker posts back: the message of a call, worker 'error'
MessageEvent(c, success) == [type |-> "message", of |-> c, success |-> success]
ErrorEvent(c) == [type |-> "error", of |-> c, success |-> FALSE]

\* the calls that have not been made yet
NotCalled == {c \in 1..Len(sandboxCalls) : sandboxCalls[c].pc = "idle"}

\* executeSkillInSandbox(code, args): both listeners are added to the one
\* worker and the request is posted
executeSkillInSandbox_Call ==
    /\ \E c \in NotCalled :
         /\ sandboxCalls' = [sandboxCalls EXCEPT ![c].pc = "pending"]
         /\ listeners' = listeners \cup {c}
         /\ workerInbox' = Append(workerInbox, c)
    /\ UNCHANGED <<workerRunning, mainEvents>>
    /\ UNCHANGED exceptSandbox

\* self.onmessage of the worker: it runs the code of the next request and
\* posts its result or its error, or waits for its promise
worker_onmessage ==
    /\ Len(workerInbox) > 0
    /\ LET c == Head(workerInbox)
           kind == sandboxCalls[c].kind
       IN /\ workerInbox' = Tail(workerInbox)
          /\ CASE kind = "returns" ->
                    /\ mainEvents' = Append(mainEvents, MessageEvent(c, TRUE))
                    /\ UNCHANGED workerRunning
               [] kind = "throws" ->
                    /\ mainEvents' = Append(mainEvents, MessageEvent(c, FALSE))
                    /\ UNCHANGED workerRunning
               [] kind = "promise" ->
                    /\ workerRunning' = workerRunning \cup {c}
                    /\ UNCHANGED mainEvents
               [] OTHER ->
                    /\ mainEvents' = Append(mainEvents, ErrorEvent(c))
                    /\ UNCHANGED workerRunning
    /\ UNCHANGED <<sandboxCalls, listeners>>
    /\ UNCHANGED exceptSandbox

\* result.then(...).catch(...) in the worker: the promise of a skill settles
worker_promise_settled ==
    /\ \E c \in workerRunning, success \in BOOLEAN :
         /\ workerRunning' = workerRunning \ {c}
         /\ mainEvents' = Append(mainEvents, MessageEvent(c, success))
    /\ UNCHANGED <<sandboxCalls, listeners, workerInbox>>
    /\ UNCHANGED exceptSandbox

\* the promise of call c settles in its handler
settle(call, event, how) == [call EXCEPT !.pc = "settled", !.of = event.of, !.settled = how]

\* a 'message' event of the worker: every messageHandler on the worker runs;
\* each removes its two listeners and resolves or rejects its promise
messageHandler ==
    /\ Len(mainEvents) > 0
    /\ LET event == Head(mainEvents)
       IN /\ event.type = "message"
          /\ sandboxCalls' = [c \in 1..Len(sandboxCalls) |->
                                IF c \in listeners
                                THEN settle(sandboxCalls[c], event,
                                            IF event.success THEN "resolved" ELSE "rejected")
                                ELSE sandboxCalls[c]]
          /\ listeners' = {}
    /\ mainEvents' = Tail(mainEvents)
    /\ UNCHANGED <<workerInbox, workerRunning>>
    /\ UNCHANGED exceptSandbox

\* an 'error' event of the worker: every errorHandler on the worker runs
errorHandler ==
    /\ Len(mainEvents) > 0
    /\ LET event == Head(mainEvents)
       IN /\ event.type = "error"
          /\ sandboxCalls' = [c \in 1..Len(sandboxCalls) |->
                                IF c \in listeners
                                THEN settle(sandboxCalls[c], event, "rejected")
                                ELSE sandboxCalls[c]]
          /\ listeners' = {}
    /\ mainEvents' = Tail(mainEvents)
    /\ UNCHANGED <<workerInbox, workerRunning>>
    /\ UNCHANGED exceptSandbox

\* ---- specification ----

\* the contents of the memory store: empty, or one record
MemoryStores == {<< >>, <<"memory">>}

\* the calls the application can make: executeWithFallback through one of its
\* exported wrappers, getChatResponse, or getMultiModelResponse
TopLevelCalls ==
    {Frame("ewf", "start", settings, jsonMode, files, "top", UserPrompt) :
        settings \in SettingsSet, jsonMode \in BOOLEAN, files \in BOOLEAN}
    \cup {getChatResponse(settings, files, UserPrompt) :
            settings \in SettingsSet, files \in BOOLEAN}
    \cup {Frame("hybrid", "refresh", settings, FALSE, FALSE, "hybrid", UserPrompt) :
            settings \in SettingsSet}

\* no adapter call is followed
AdapterIdle ==
    /\ adapter = "none" /\ specificModel = NoModel
    /\ modelsToTry = << >> /\ apiKeyList = << >>
    /\ modelIdx = 1 /\ keyIdx = 1
    /\ adapterPc = "idle" /\ adapterLastError = Undefined
    /\ requests = << >> /\ outcome = NoRes

\* the module-level state of the cache when the module is loaded
CacheLoaded ==
    /\ cachedOpenRouterModels = << >>
    /\ cachedHuggingFaceModels = << >>
    /\ lastDiscoveryTime = 0
    /\ clock = ClockStart
    /\ refreshes = [c \in RefreshCallers |-> Refresh(0, "idle")]
    /\ justWritten = FALSE

\* no call of sanitizeAndParseJson or selectSwarmModels is followed
JsonIdle ==
    /\ selectInput = [prompt |-> << >>, availableModels |-> << >>]
    /\ selectResult = << >>
    /\ jsonInput = JsonInput(NoValue, Wrapping("raw", << >>, << >>), << >>)
    /\ jsonResult = ParseFailure

\* no streamed call is followed
StreamIdle ==
    /\ streamSettings = [provider |-> "gemini", isComplexTaskMode |-> FALSE,
                         openRouterApiKeys |-> << >>, huggingFaceApiKeys |-> << >>]
    /\ streamCall = Trial(streamSettings, "top")
    /\ streamPc = "idle"
    /\ delivered = << >>

\* no streaming loop is followed
SseIdle ==
    /\ sseInput = [lines |-> << >>, terminated |-> TRUE, body |-> << >>]
    /\ ssePos = 0
    /\ sseBuffer = << >>
    /\ sseDelivered = << >>
    /\ sseFullResponse = << >>
    /\ ssePc = "idle"

\* no call of the service is followed
ServiceIdle ==
    /\ StreamIdle
    /\ JsonIdle
    /\ stack = << >> /\ memories = << >>
    /\ AdapterIdle
    /\ CacheLoaded

\* no call of discoverFreeOpenRouterModels is followed
ScoreIdle ==
    /\ scoreInput = << >>
    /\ scoreResult = << >>

\* no request-building is followed
WireIdle ==
    /\ wireHistory = << >>
    /\ wirePrompt = ""
    /\ wireRequests = << >>

\* no entry of callOpenRouter is followed
EntryIdle == entryInput = [messages |-> << >>, catalog |-> << >>]

\* no call of executeSkillInSandbox has been made
SandboxIdle ==
    /\ sandboxCalls = << >>
    /\ listeners = {}
    /\ workerInbox = << >>
    /\ workerRunning = {}
    /\ mainEvents = << >>

\* the app has just mounted: no message, not loading, no analysis started
LearnIdle ==
    /\ lastSender = "none"
    /\ isLoading = FALSE
    /\ isLearning = FALSE
    /\ learningTimer = FALSE
    /\ analyses = << >>
    /\ newSkill = FALSE

\* the settings of a first start: no key is stored, no request is in flight
KeysIdle ==
    /\ aiSettings = [provider |-> "gemini",
                     openRouterApiKeys |-> << >>,
                     openRouterKeyIndex |-> [nan |-> FALSE, val |-> 0],
                     huggingFaceApiKeys |-> << >>,
                     huggingFaceKeyIndex |-> [nan |-> FALSE, val |-> 0]]
    /\ localSettings = aiSettings
    /\ captured = << >>

MoreIdle ==
    /\ SseIdle
    /\ ScoreIdle
    /\ WireIdle
    /\ EntryIdle
    /\ SandboxIdle
    /\ LearnIdle
    /\ KeysIdle

Init ==
    /\ MoreIdle
    /\ StreamIdle
    /\ JsonIdle
    /\ \E call \in TopLevelCalls : stack = <<call>>
    /\ memories \in MemoryStores
    /\ AdapterIdle
    /\ CacheLoaded

Next ==
    \/ executeWithFallback_Start
    \/ executeWithFallback_SwarmSettled
    \/ executeWithFallback_Try
    \/ executeWithFallback_AdapterSettled
    \/ executeWithFallback_HybridSettled
    \/ executeWithFallback_Exhausted
    \/ executeOpenRouterSwarm_FanOut
    \/ executeOpenRouterSwarm_BranchSettled
    \/ executeOpenRouterSwarm_Gather
    \/ executeOpenRouterSwarm_SynthSettled
    \/ getMultiModelResponse_FanOut
    \/ getMultiModelResponse_BranchSettled
    \/ getMultiModelResponse_Gather
    \/ getMultiModelResponse_Settled
    \/ getChatResponse_Start
    \/ getChatResponse_MemoriesSettled
    \/ getChatResponse_MainSettled

Spec == Init /\ [][Next]_vars

\* every request settles and every continuation runs: a step that can be
\* taken is taken
SpecLive == Init /\ [][Next]_vars /\ WF_vars(Next)

\* ---- specification of one adapter call ----

\* the state at `let lastError;`: the catalogs are filled, the lists are fixed
InitAdapter ==
    /\ MoreIdle
    /\ StreamIdle
    /\ JsonIdle
    /\ stack = << >> /\ memories = << >>
    /\ lastDiscoveryTime = ClockStart /\ clock = ClockStart
    /\ refreshes = [c \in RefreshCallers |-> Refresh(0, "idle")]
    /\ justWritten = FALSE
    /\ adapter \in {"openrouter", "huggingface"}
    /\ apiKeyList \in AdapterKeyLists
    /\ IF adapter = "openrouter"
       THEN /\ cachedOpenRouterModels \in OpenRouterCatalogs
            /\ cachedHuggingFaceModels = SAFETY_FALLBACK_HF
            /\ specificModel \in {NoModel, SAFETY_FALLBACK_OPENROUTER[3]}
            /\ modelsToTry = ModelsToTry(specificModel, cachedOpenRouterModels)
       ELSE /\ cachedOpenRouterModels = SAFETY_FALLBACK_OPENROUTER
            /\ cachedHuggingFaceModels \in HuggingFaceCatalogs
            /\ specificModel = NoModel
            /\ modelsToTry = cachedHuggingFaceModels
    /\ modelIdx = 1 /\ keyIdx = 1
    /\ adapterPc = "loop" /\ adapterLastError = Undefined
    /\ requests = << >> /\ outcome = NoRes

NextAdapter ==
    \/ callOpenRouter_Fetch
    \/ callOpenRouter_Response
    \/ callOpenRouter_Exhausted
    \/ callHuggingFace_Fetch
    \/ callHuggingFace_Response
    \/ callHuggingFace_Exhausted

SpecAdapter == InitAdapter /\ [][NextAdapter]_vars

\* ---- specification of the model discovery cache ----

InitCache ==
    /\ MoreIdle
    /\ StreamIdle
    /\ JsonIdle
    /\ stack = << >> /\ memories = << >>
    /\ AdapterIdle
    /\ CacheLoaded

NextCache ==
    \/ refreshModelCache_Call
    \/ discoverFreeOpenRouterModels_Settled
    \/ discoverTrendingHFModels_Settled
    \/ refreshModelCache_Write
    \/ Tick

SpecCache == InitCache /\ [][NextCache]_vars

\* ---- specification of one call of the JSON extractor ----

InitJson ==
    /\ MoreIdle
    /\ StreamIdle
    /\ stack = << >> /\ memories = << >>
    /\ AdapterIdle
    /\ CacheLoaded
    /\ selectInput = [prompt |-> << >>, availableModels |-> << >>]
    /\ selectResult = << >>
    /\ jsonInput \in JsonInputs
    /\ jsonResult = Running

NextJson == sanitizeAndParseJson_Call

SpecJson == InitJson /\ [][NextJson]_vars

\* ---- specification of one call of selectSwarmModels ----

InitSelect ==
    /\ MoreIdle
    /\ StreamIdle
    /\ stack = << >> /\ memories = << >>
    /\ AdapterIdle
    /\ CacheLoaded
    /\ jsonInput = JsonInput(NoValue, Wrapping("raw", << >>, << >>), << >>)
    /\ jsonResult = ParseFailure
    /\ selectInput \in [prompt : SwarmPrompts, availableModels : SwarmCatalogs]
    /\ selectResult = NotSelected

NextSelect == selectSwarmModels_Call

SpecSelect == InitSelect /\ [][NextSelect]_vars

\* ---- specification of one streamed call of executeWithFallback ----

InitStream ==
    /\ MoreIdle
    /\ stack = << >> /\ memories = << >>
    /\ AdapterIdle
    /\ CacheLoaded
    /\ JsonIdle
    /\ streamSettings \in StreamPolicies
    /\ streamCall = Trial(streamSettings, "top")
    /\ streamPc = "start"
    /\ delivered = << >>

NextStream ==
    \/ executeWithFallback_Streamed_Start
    \/ executeOpenRouterSwarm_Streamed_Gather
    \/ executeWithFallback_Streamed_Try
    \/ onChunk_Chunk
    \/ Stream_Done
    \/ Stream_Throws
    \/ callHuggingFace_Streamed_Settled
    \/ executeWithFallback_Streamed_Exhausted

SpecStream == InitStream /\ [][NextStream]_vars

\* ---- specification of one streaming loop of callOpenRouter ----

InitSse ==
    /\ KeysIdle
    /\ LearnIdle
    /\ SandboxIdle
    /\ ServiceIdle
    /\ ScoreIdle
    /\ WireIdle
    /\ EntryIdle
    /\ sseInput \in SseInputs
    /\ ssePos = 0
    /\ sseBuffer = << >>
    /\ sseDelivered = << >>
    /\ sseFullResponse = << >>
    /\ ssePc = "reading"

NextSse ==
    \/ reader_read
    \/ reader_done

SpecSse == InitSse /\ [][NextSse]_vars

\* ---- specification of one call of discoverFreeOpenRouterModels ----

InitScore ==
    /\ KeysIdle
    /\ LearnIdle
    /\ SandboxIdle
    /\ ServiceIdle
    /\ SseIdle
    /\ WireIdle
    /\ EntryIdle
    /\ scoreInput \in ScoredListings
    /\ scoreResult = NoCatalog

NextScore == discoverFreeOpenRouterModels_Call

SpecScore == InitScore /\ [][NextScore]_vars

\* ---- specification of the requests built for one top-level call ----

InitWire ==
    /\ KeysIdle
    /\ LearnIdle
    /\ SandboxIdle
    /\ ServiceIdle
    /\ SseIdle
    /\ ScoreIdle
    /\ EntryIdle
    /\ wireHistory \in Histories
    /\ wirePrompt = "prompt"
    /\ wireRequests = [site \in Sites |-> NotSent]

NextWire ==
    \/ executeWithFallback_Gemini_Request
    \/ executeWithFallback_OpenRouter_Request
    \/ executeWithFallback_HuggingFace_Request
    \/ executeOpenRouterSwarm_Request
    \/ getMultiModelResponse_Gemini_Request
    \/ getMultiModelResponse_OpenRouter_Request
    \/ getMultiModelResponse_HuggingFace_Request

SpecWire == InitWire /\ [][NextWire]_vars

\* ---- specification of the entry of callOpenRouter ----

InitEntry ==
    /\ KeysIdle
    /\ LearnIdle
    /\ SandboxIdle
    /\ SseIdle
    /\ ScoreIdle
    /\ WireIdle
    /\ StreamIdle
    /\ JsonIdle
    /\ stack = << >> /\ memories = << >>
    /\ lastDiscoveryTime = ClockStart /\ clock = ClockStart
    /\ refreshes = [c \in RefreshCallers |-> Refresh(0, "idle")]
    /\ justWritten = FALSE
    /\ entryInput \in [messages : EntryMessages, catalog : EntryCatalogs]
    /\ cachedOpenRouterModels = entryInput.catalog
    /\ cachedHuggingFaceModels = SAFETY_FALLBACK_HF
    /\ adapter = "openrouter"
    /\ apiKeyList \in {k \in AdapterKeyLists : Len(k) > 0}
    /\ specificModel \in {NoModel, SAFETY_FALLBACK_OPENROUTER[3]}
    /\ modelsToTry = << >>
    /\ modelIdx = 1 /\ keyIdx = 1
    /\ adapterPc = "entry" /\ adapterLastError = Undefined
    /\ requests = << >> /\ outcome = NoRes

NextEntry == callOpenRouter_Entry

SpecEntry == InitEntry /\ [][NextEntry]_vars

\* ---- specification of the sandbox ----

InitSandbox ==
    /\ KeysIdle
    /\ LearnIdle
    /\ ServiceIdle
    /\ SseIdle
    /\ ScoreIdle
    /\ WireIdle
    /\ EntryIdle
    /\ sandboxCalls \in [1..MaxCalls -> {SkillCall(kind) : kind \in SkillKinds}]
    /\ listeners = {}
    /\ workerInbox = << >>
    /\ workerRunning = {}
    /\ mainEvents = << >>

NextSandbox ==
    \/ executeSkillInSandbox_Call
    \/ worker_onmessage
    \/ worker_promise_settled
    \/ messageHandler
    \/ errorHandler

SpecSandbox == InitSandbox /\ [][NextSandbox]_vars

TypeOK ==
    /\ Depth \in 1..MaxDepth + 1
    /\ \A i \in 1..Depth : stack[i].fn \in {"ewf", "swarm", "hybrid", "chat"}

\* ---- automatic skill learning: the effect of App and its timer ----

\* the sender of messages[messages.length - 1], "none" for no message
Senders == {"none", "user", "ai"}

\* the body of the effect: it returns early unless the last message is the
\* user's, the app is not loading and isLearning.current is false; otherwise
\* it sets the timer. Its cleanup has cleared the timer of the run before
learningEffect(last, loading, learning) ==
    last = "user" /\ ~loading /\ ~learning

\* the calls of performAutomaticLearning whose analysis has not returned
InFlightAnalyses == {a \in 1..Len(analyses) : analyses[a] = "running"}

\* handleSendMessage up to its first await: the user's message is added and
\* the app is loading
handleSendMessage ==
    /\ lastSender' = "user"
    /\ isLoading' = TRUE
    /\ learningTimer' = learningEffect("user", TRUE, isLearning)
    /\ UNCHANGED <<isLearning, analyses, newSkill>>
    /\ UNCHANGED exceptLearn

\* addAiMessage: a message of the assistant is appended
addAiMessage ==
    /\ isLoading
    /\ lastSender' = "ai"
    /\ learningTimer' = learningEffect("ai", isLoading, isLearning)
    /\ UNCHANGED <<isLoading, isLearning, analyses, newSkill>>
    /\ UNCHANGED exceptLearn

\* setIsLoading(false) at the end of a request
setIsLoading_False ==
    /\ isLoading
    /\ isLoading' = FALSE
    /\ learningTimer' = learningEffect(lastSender, FALSE, isLearning)
    /\ UNCHANGED <<lastSender, isLearning, analyses, newSkill>>
    /\ UNCHANGED exceptLearn

\* handleSessionSelect, undo and redo: the messages are replaced by a list
\* that ends with any sender or is empty
setMessages ==
    /\ \E last \in Senders :
         /\ lastSender' = last
         /\ learningTimer' = learningEffect(last, isLoading, isLearning)
    /\ UNCHANGED <<isLoading, isLearning, analyses, newSkill>>
    /\ UNCHANGED exceptLearn

\* the timer expires: performAutomaticLearning sets isLearning.current and
\* awaits proposeSkillFromHistory
performAutomaticLearning_Start ==
    /\ learningTimer
    /\ Len(analyses) < MaxAnalyses
    /\ learningTimer' = FALSE
    /\ isLearning' = TRUE
    /\ analyses' = Append(analyses, "running")
    /\ UNCHANGED <<lastSender, isLoading, newSkill>>
    /\ UNCHANGED exceptLearn

\* proposeSkillFromHistory returns or throws in a call of
\* performAutomaticLearning: rotateKey, which changes the settings when the
\* provider has keys; the proposal, if any, is announced and shown; finally
\* isLearning.current is reset. The effect runs again when one of its
\* dependencies has changed
performAutomaticLearning_Settled ==
    /\ \E a \in InFlightAnalyses, rotates \in BOOLEAN, proposal \in BOOLEAN :
         LET last == IF proposal THEN "ai" ELSE lastSender
         IN /\ analyses' = [analyses EXCEPT ![a] = "done"]
            /\ lastSender' = last
            /\ newSkill' = (newSkill \/ proposal)
            /\ isLearning' = FALSE
            /\ learningTimer' = IF rotates \/ proposal
                                THEN learningEffect(last, isLoading, FALSE)
                                ELSE learningTimer
    /\ UNCHANGED isLoading
    /\ UNCHANGED exceptLearn

\* handleNewChatRequest: the messages are reset and isLearning.current is set
\* to false
handleNewChatRequest ==
    /\ lastSender' = "none"
    /\ isLearning' = FALSE
    /\ learningTimer' = learningEffect("none", isLoading, FALSE)
    /\ UNCHANGED <<isLoading, analyses, newSkill>>
    /\ UNCHANGED exceptLearn

\* the app after mounting, with no conversation
InitLearn ==
    /\ KeysIdle
    /\ ServiceIdle
    /\ SseIdle
    /\ ScoreIdle
    /\ WireIdle
    /\ EntryIdle
    /\ SandboxIdle
    /\ LearnIdle

NextLearn ==
    \/ handleSendMessage
    \/ addAiMessage
    \/ setIsLoading_False
    \/ setMessages
    \/ performAutomaticLearning_Start
    \/ performAutomaticLearning_Settled
    \/ handleNewChatRequest

SpecLearn == InitLearn /\ [][NextLearn]_vars

\* ---- the API keys: the settings screen and rotateKey ----

\* a JavaScript number that is an integer, and NaN
Number(v) == [nan |-> FALSE, val |-> v]
NaN == [nan |-> TRUE, val |-> 0]

\* x + 1, x % n with n a length, x >= n and x < n as JavaScript computes them:
\* the remainder by 0 is NaN, and every comparison with NaN is false
plusOne(x) == IF x.nan THEN NaN ELSE Number(x.val + 1)
remainder(x, n) == IF x.nan \/ n = 0 THEN NaN ELSE Number(x.val % n)
atLeast(x, n) == ~x.nan /\ x.val >= n
lessThan(x, n) == ~x.nan /\ x.val < n

\* the keys the user can type
KeyNames == <<"key-a", "key-b", "key-c">>
OpenRouterKeys == {KeyNames[k] : k \in 1..MaxOpenRouterKeys}
HuggingFaceKeys == {KeyNames[k] : k \in 1..MaxHuggingFaceKeys}

\* the providers of the select; rotateKey treats "hybrid" as it treats "gemini"
KeyProviders == {"gemini", "openrouter", "huggingface"}

\* keys.filter(key => key !== keyToRemove)
RECURSIVE without(_, _)
without(keys, keyToRemove) ==
    IF keys = << >> THEN << >>
    ELSE IF Head(keys) = keyToRemove THEN without(Tail(keys), keyToRemove)
         ELSE <<Head(keys)>> \o without(Tail(keys), keyToRemove)

\* the elements of a list
elements(keys) == {keys[k] : k \in 1..Len(keys)}

\* the index left after a key is removed: Math.max(0, newKeys.length - 1) when
\* it is not below the new length
indexAfterRemoval(index, newKeys) ==
    IF atLeast(index, Len(newKeys))
    THEN Number(IF Len(newKeys) - 1 > 0 THEN Len(newKeys) - 1 ELSE 0)
    ELSE index

\* safeOpenRouterIndex and safeHuggingFaceIndex of handleSave
safeIndex(index, keys) ==
    IF Len(keys) > 0 /\ atLeast(index, 0) /\ lessThan(index, Len(keys))
    THEN index
    ELSE Number(0)

\* the provider select of the settings screen
setProvider ==
    /\ \E provider \in KeyProviders :
         localSettings' = [localSettings EXCEPT !.provider = provider]
    /\ UNCHANGED <<aiSettings, captured>>
    /\ UNCHANGED exceptKeys

handleAddOpenRouterKey ==
    /\ \E key \in OpenRouterKeys \ elements(localSettings.openRouterApiKeys) :
         localSettings' = [localSettings EXCEPT
                             !.openRouterApiKeys = Append(@, key)]
    /\ UNCHANGED <<aiSettings, captured>>
    /\ UNCHANGED exceptKeys

handleRemoveOpenRouterKey ==
    /\ \E keyToRemove \in elements(localSettings.openRouterApiKeys) :
         LET newKeys == without(localSettings.openRouterApiKeys, keyToRemove)
         IN localSettings' = [localSettings EXCEPT
                                !.openRouterApiKeys = newKeys,
                                !.openRouterKeyIndex = indexAfterRemoval(@, newKeys)]
    /\ UNCHANGED <<aiSettings, captured>>
    /\ UNCHANGED exceptKeys

\* "Set as active key" of a listed OpenRouter key
setOpenRouterKeyIndex ==
    /\ \E index \in 1..Len(localSettings.openRouterApiKeys) :
         localSettings' = [localSettings EXCEPT
                             !.openRouterKeyIndex = Number(index - 1)]
    /\ UNCHANGED <<aiSettings, captured>>
    /\ UNCHANGED exceptKeys

handleAddHuggingFaceKey ==
    /\ \E key \in HuggingFaceKeys \ elements(localSettings.huggingFaceApiKeys) :
         localSettings' = [localSettings EXCEPT
                             !.huggingFaceApiKeys = Append(@, key)]
    /\ UNCHANGED <<aiSettings, captured>>
    /\ UNCHANGED exceptKeys

handleRemoveHuggingFaceKey ==
    /\ \E keyToRemove \in elements(localSettings.huggingFaceApiKeys) :
         LET newKeys == without(localSettings.huggingFaceApiKeys, keyToRemove)
         IN localSettings' = [localSettings EXCEPT
                                !.huggingFaceApiKeys = newKeys,
                                !.huggingFaceKeyIndex = indexAfterRemoval(@, newKeys)]
    /\ UNCHANGED <<aiSettings, captured>>
    /\ UNCHANGED exceptKeys

\* "Set as active key" of a listed Hugging Face key
setHuggingFaceKeyIndex ==
    /\ \E index \in 1..Len(localSettings.huggingFaceApiKeys) :
         localSettings' = [localSettings EXCEPT
                             !.huggingFaceKeyIndex = Number(index - 1)]
    /\ UNCHANGED <<aiSettings, captured>>
    /\ UNCHANGED exceptKeys

\* handleSave: the draft is stored with its indices made safe; the effect of
\* the settings screen then copies the stored settings into the draft
handleSave ==
    /\ aiSettings' = [localSettings EXCEPT
                        !.openRouterKeyIndex =
                            safeIndex(@, localSettings.openRouterApiKeys),
                        !.huggingFaceKeyIndex =
                            safeIndex(@, localSettings.huggingFaceApiKeys)]
    /\ localSettings' = aiSettings'
    /\ UNCHANGED captured
    /\ UNCHANGED exceptKeys

\* what the guard of rotateKey reads of the settings its closure holds
guardFields(settings) ==
    [provider |-> settings.provider,
     openRouterApiKeys |-> settings.openRouterApiKeys,
     huggingFaceApiKeys |-> settings.huggingFaceApiKeys]

\* a request starts (handleSendMessage, performAutomaticLearning): its closure
\* holds rotateKey with the settings of the render it was made in
request_Start ==
    /\ Len(captured) < MaxRequests
    /\ captured' = Append(captured, guardFields(aiSettings))
    /\ UNCHANGED <<aiSettings, localSettings>>
    /\ UNCHANGED exceptKeys

\* rotateKey as the closure made with the settings snapshot: the guard reads
\* the snapshot, the update reads the settings stored at the time it is applied
rotateKey(snapshot, prev) ==
    IF snapshot.provider = "openrouter" /\ Len(snapshot.openRouterApiKeys) > 0
    THEN [prev EXCEPT !.openRouterKeyIndex =
                remainder(plusOne(@), Len(prev.openRouterApiKeys))]
    ELSE IF snapshot.provider = "huggingface" /\ Len(snapshot.huggingFaceApiKeys) > 0
    THEN [prev EXCEPT !.huggingFaceKeyIndex =
                remainder(plusOne(@), Len(prev.huggingFaceApiKeys))]
    ELSE prev

\* a request in flight returns and calls its rotateKey; the settings screen
\* copies the stored settings into its draft when they were set
request_Done ==
    /\ \E r \in 1..Len(captured) :
         LET snapshot == captured[r]
             rotates ==
                \/ snapshot.provider = "openrouter" /\ Len(snapshot.openRouterApiKeys) > 0
                \/ snapshot.provider = "huggingface" /\ Len(snapshot.huggingFaceApiKeys) > 0
         IN /\ aiSettings' = rotateKey(snapshot, aiSettings)
            /\ localSettings' = IF rotates THEN aiSettings' ELSE localSettings
            /\ captured' = SubSeq(captured, 1, r - 1) \o SubSeq(captured, r + 1, Len(captured))
    /\ UNCHANGED exceptKeys

\* a first start of the app
InitKeys ==
    /\ ServiceIdle
    /\ SseIdle
    /\ ScoreIdle
    /\ WireIdle
    /\ EntryIdle
    /\ SandboxIdle
    /\ LearnIdle
    /\ KeysIdle

NextKeys ==
    \/ setProvider
    \/ handleAddOpenRouterKey
    \/ handleRemoveOpenRouterKey
    \/ setOpenRouterKeyIndex
    \/ handleAddHuggingFaceKey
    \/ handleRemoveHuggingFaceKey
    \/ setHuggingFaceKeyIndex
    \/ handleSave
    \/ request_Start
    \/ request_Done

SpecKeys == InitKeys /\ [][NextKeys]_vars

\* ---- properties ----

EwfIdx == {i \in 1..Depth : stack[i].fn = "ewf"}
EngineIdx == {i \in 1..Depth : stack[i].fn \in {"swarm", "hybrid"}}

\* the number of providers of frame f whose attempt has started
Started(f) == IF f.pc = "await_provider" THEN Len(f.att) + 1 ELSE Len(f.att)

\* C1: executeWithFallback tries the providers of its list strictly in list
\* order; a provider whose attempt throws is skipped and the next one is tried;
\* the first provider that returns ends the call with its result, and no
\* request goes to a later provider.
C1_FirstReturnShortCircuits ==
    \A i \in EwfIdx :
      LET f == stack[i]
      IN /\ Len(f.att) <= Len(f.providers)
         /\ \A k \in 1..Len(f.att) :
              /\ f.att[k].p = f.providers[k]
              /\ f.att[k].out = "ok" =>
                   /\ k = Len(f.att)
                   /\ f.pc = "done"
                   /\ f.res = Ok(f.att[k].val)
              /\ (f.att[k].out = "err" /\ k < Len(f.providers)) =>
                   \/ k < Started(f)
                   \/ f.pc = "loop"
         /\ f.pc = "await_provider" => Started(f) <= Len(f.providers)
         /\ \A j \in 1..Len(f.sent) :
              \E k \in 1..Started(f) : f.providers[k] = f.sent[j]
         /\ (f.pc = "done" /\ f.res.kind = "ok" /\ f.swarm # "ok") =>
              /\ Len(f.att) >= 1
              /\ f.att[Len(f.att)].out = "ok"

C1_Witness ==
    \E i \in EwfIdx :
      /\ stack[i].pc = "done" /\ stack[i].res.kind = "ok"
      /\ Len(stack[i].att) = 2 /\ Len(stack[i].providers) = 3
      /\ stack[i].att[1].out = "err"
      /\ Len(stack[i].sent) = 2

\* C2: executeWithFallback raises exactly when every provider of its list
\* failed (and the Swarm attempt, when made, failed too); the error raised
\* carries the message of the failure of the last provider tried.
C2_RaisesIffAllFailed ==
    \A i \in EwfIdx :
      LET f == stack[i]
          allFailed == /\ Len(f.att) = Len(f.providers)
                       /\ Len(f.providers) >= 1
                       /\ \A k \in 1..Len(f.att) : f.att[k].out = "err"
      IN /\ f.pc = "done" => f.res.kind \in {"ok", "err"}
         /\ (f.pc = "done" /\ f.res.kind = "err") =>
              /\ allFailed
              /\ f.swarm \in {"no", "failed"}
              /\ f.att[Len(f.att)].p = f.providers[Len(f.providers)]
              /\ f.res.val = AllFailed(f.att[Len(f.att)].val)
         /\ (f.pc = "done" /\ allFailed) => f.res.kind = "err"
         /\ (f.pc = "loop" /\ allFailed) => f.lastError = f.att[Len(f.att)].val

C2_Witness ==
    \E i \in EwfIdx :
      /\ stack[i].pc = "done" /\ stack[i].res.kind = "err"
      /\ stack[i].swarm = "failed"
      /\ Len(stack[i].att) = 3
      /\ stack[i].att[1].val # stack[i].att[3].val

\* C3: the synthesis call of the Swarm Engine or of the Hybrid Engine never
\* starts a Swarm run or a Hybrid run: at most one engine run is nested in one
\* top-level call.
C3_NestingAtMostOne == Cardinality(EngineIdx) <= 1

\* C4 (as stated): with provider hybrid the outcome of the call is the Hybrid
\* Engine's outcome and the loop tries no other provider, also when the
\* Hybrid Engine fails.
C4_HybridInsteadOfList ==
    \A i \in EwfIdx :
      LET f == stack[i]
      IN f.settings.provider = "hybrid" =>
           /\ f.sent = << >>
           /\ f.pc = "done" =>
                /\ Len(f.att) = 1
                /\ f.att[1].p = "hybrid"
                /\ f.res.val = f.att[1].val

\* C4 (amended): with provider hybrid the Hybrid Engine is the first entry of
\* the trial list; when it returns, its text is the outcome and no request
\* was issued by the loop; only after it failed does the loop go on to
\* gemini and the providers with credentials.
C4_HybridFirstThenFallback ==
    \A i \in EwfIdx :
      LET f == stack[i]
      IN f.settings.provider = "hybrid" =>
           /\ Len(f.providers) >= 1 => f.providers[1] = "hybrid"
           /\ Len(f.att) >= 1 =>
                /\ f.att[1].p = "hybrid"
                /\ f.att[1].out = "ok" =>
                     /\ f.pc = "done"
                     /\ f.res = Ok(f.att[1].val)
                     /\ f.sent = << >>
           /\ f.sent # << >> =>
                /\ Len(f.att) >= 1
                /\ f.att[1].out = "err"
                /\ f.sent[1] = "gemini"
           /\ (Len(f.att) >= 1 /\ f.att[1].out = "err" /\ f.pc = "done") =>
                /\ Len(f.att) >= 2
                /\ f.att[2].p = "gemini"
                /\ f.res.val \in {f.att[Len(f.att)].val,
                                  AllFailed(f.att[Len(f.att)].val)}

C4_Witness ==
    \E i \in EwfIdx :
      /\ stack[i].settings.provider = "hybrid"
      /\ stack[i].pc = "done" /\ stack[i].res.kind = "ok"
      /\ Len(stack[i].att) = 2
      /\ stack[i].att[1].out = "err"
      /\ stack[i].att[2].p = "gemini"

\* the trial list as the specification words it
TrialTail(settings) ==
    LET keep(q) == /\ q # settings.provider
                   /\ \/ q = "gemini"
                      \/ q = "openrouter" /\ settings.openRouterApiKeys # << >>
                      \/ q = "huggingface" /\ settings.huggingFaceApiKeys # << >>
    IN SelectSeq(<<"gemini", "openrouter", "huggingface">>, keep)

ListBuilt(f) == f.pc \in {"loop", "await_provider"} \/ (f.pc = "done" /\ f.swarm # "ok")

\* C5: the trial list is the chosen provider, then gemini if not chosen, then
\* openrouter if it has credentials and is not chosen, then huggingface if it
\* has credentials and is not chosen; no provider twice, gemini always.
C5_TrialList ==
    \A i \in EwfIdx :
      LET f == stack[i]
          L == f.providers
      IN ListBuilt(f) =>
           /\ L = <<f.settings.provider>> \o TrialTail(f.settings)
           /\ \A a, b \in 1..Len(L) : L[a] = L[b] => a = b
           /\ \E a \in 1..Len(L) : L[a] = "gemini"

C5_Witness ==
    \E i \in EwfIdx :
      /\ ListBuilt(stack[i])
      /\ stack[i].providers = <<"openrouter", "gemini", "huggingface">>
      /\ stack[i].settings.openRouterApiKeys # << >>

\* C6: the Swarm Engine is attempted exactly when complex-task mode is set,
\* an OpenRouter credential exists, there is no attachment and JSON mode is
\* not requested; it runs before any provider of the list is tried.
C6_SwarmCondition ==
    /\ \A i \in EwfIdx :
         LET f == stack[i]
         IN /\ f.pc # "start" =>
                 (f.swarm # "no" <=> /\ f.settings.isComplexTaskMode
                                     /\ f.settings.openRouterApiKeys # << >>
                                     /\ ~f.files
                                     /\ ~f.jsonMode)
            /\ f.pc = "await_swarm" =>
                 /\ i < Depth /\ stack[i + 1].fn = "swarm"
                 /\ f.att = << >> /\ f.sent = << >> /\ f.providers = << >>
            /\ f.swarm = "ok" => f.att = << >> /\ f.sent = << >>
    /\ \A i \in 1..Depth :
         stack[i].fn = "swarm" =>
           /\ i > 1
           /\ stack[i - 1].fn = "ewf" /\ stack[i - 1].pc = "await_swarm"

C6_Witness ==
    \E i \in EwfIdx :
      /\ stack[i].pc = "await_swarm"
      /\ i < Depth /\ stack[i + 1].fn = "swarm" /\ stack[i + 1].pc = "await_all"
      /\ stack[i].settings.provider = "huggingface"

\* C7: a failure of the Swarm attempt never fails the call by itself: the
\* call goes on with the full trial list and fails only when that list is
\* exhausted too.
C7_SwarmFailureFallsThrough ==
    \A i \in EwfIdx :
      LET f == stack[i]
      IN f.swarm = "failed" =>
           /\ f.pc \in {"loop", "await_provider", "done"}
           /\ f.providers = <<f.settings.provider>> \o TrialTail(f.settings)
           /\ (f.pc = "done" /\ f.res.kind = "err") =>
                /\ Len(f.att) = Len(f.providers)
                /\ \A k \in 1..Len(f.att) : f.att[k].out = "err"
                /\ f.res.val = AllFailed(f.att[Len(f.att)].val)

C7_Witness ==
    \E i \in EwfIdx :
      /\ stack[i].swarm = "failed"
      /\ stack[i].pc = "done" /\ stack[i].res.kind = "ok"
      /\ stack[i].att[Len(stack[i].att)].p = "gemini"

SwarmIdx == {i \in 1..Depth : stack[i].fn = "swarm"}
HybridIdx == {i \in 1..Depth : stack[i].fn = "hybrid"}

\* the (identifier, text) pairs of the branches of br that satisfy keep
PairsOf(br, K) == {<<br[k].label, br[k].text>> : k \in K}
PromptPairs(prompt) == {prompt[j] : j \in 1..Len(prompt)}
Succeeded(br) == {k \in 1..Len(br) : br[k].st = "settled" /\ br[k].success}
NonEmpty(br) == {k \in Succeeded(br) : br[k].text # NoText}

\* C8 (as stated): if no per-model call succeeded the Swarm attempt fails
\* without a synthesis call; otherwise the synthesis prompt holds the
\* identifier and text of every successful call and of no failed call.
C8_SwarmPartition ==
    \A i \in SwarmIdx :
      LET f == stack[i]
      IN /\ f.pc = "await_synth" =>
              /\ i < Depth
              /\ PromptPairs(stack[i + 1].prompt) = PairsOf(f.br, Succeeded(f.br))
         /\ (f.pc = "done" /\ f.res = Err(SwarmFailed)) => Succeeded(f.br) = {}

\* C8 (amended): a call counts when it succeeded with non-empty text.  If no
\* call did, the Swarm attempt fails without a synthesis call; otherwise the
\* synthesis prompt holds, in call order, the identifier and text of exactly
\* those calls, and the other calls do not make the attempt fail.
C8_SwarmPartitionNonEmpty ==
    \A i \in SwarmIdx :
      LET f == stack[i]
      IN /\ f.pc = "await_synth" =>
              /\ i < Depth
              /\ stack[i + 1].fn = "ewf" /\ stack[i + 1].origin = "swarmSynth"
              /\ NonEmpty(f.br) # {}
              /\ PromptPairs(stack[i + 1].prompt) = PairsOf(f.br, NonEmpty(f.br))
              /\ Len(stack[i + 1].prompt) = Cardinality(NonEmpty(f.br))
              /\ \A a, b \in 1..Len(f.br) :
                   (a < b /\ a \in NonEmpty(f.br) /\ b \in NonEmpty(f.br)) =>
                     \E x, y \in 1..Len(stack[i + 1].prompt) :
                       /\ x < y
                       /\ stack[i + 1].prompt[x][1] = f.br[a].label
                       /\ stack[i + 1].prompt[y][1] = f.br[b].label
         /\ (f.pc = "done" /\ f.res = Err(SwarmFailed)) => NonEmpty(f.br) = {}
         /\ (f.pc = "done" /\ f.br # << >> /\ NonEmpty(f.br) = {}) =>
              f.res = Err(SwarmFailed)
         /\ (i < Depth /\ stack[i + 1].origin = "swarmSynth") => f.pc = "await_synth"

C8_Witness ==
    \E i \in SwarmIdx :
      /\ stack[i].pc = "await_synth"
      /\ \E a, b \in 1..Len(stack[i].br) :
           /\ ~stack[i].br[a].success
           /\ stack[i].br[b].success /\ stack[i].br[b].text # NoText

\* C9: in both engines the synthesis call starts only after every parallel
\* branch has settled, whatever the order of completion and also when a
\* branch has already failed.
C9_Barrier ==
    \A i \in EngineIdx :
      LET f == stack[i]
          synthesising == \/ f.pc = "await_synth"
                          \/ i < Depth /\ stack[i + 1].origin \in {"swarmSynth", "hybridSynth"}
      IN /\ synthesising => \A k \in 1..Len(f.br) : f.br[k].st = "settled"
         /\ (f.pc = "done" /\ f.br # << >>) => \A k \in 1..Len(f.br) : f.br[k].st = "settled"

C9_Witness ==
    \E i \in EngineIdx :
      /\ stack[i].pc = "await_synth"
      /\ Len(stack[i].br) >= 2
      /\ ~stack[i].br[1].success
      /\ stack[i].br[Len(stack[i].br)].success

HasKeys(settings) == settings.openRouterApiKeys # << >> \/ settings.huggingFaceApiKeys # << >>

\* C10 (as stated): with a marketplace or inference-endpoint credential the
\* Hybrid Engine raises exactly when every parallel call it issued failed.
C10_HybridRaisesIffAllFailed ==
    \A i \in HybridIdx :
      LET f == stack[i]
      IN (HasKeys(f.settings) /\ f.pc = "done") =>
           (f.res.kind = "err" <=> Succeeded(f.br) = {})

\* C10 (amended): a failed parallel call is an absent result.  The Hybrid
\* Engine raises its own failure, without a synthesis call, exactly when
\* every parallel call it issued failed; otherwise it starts the synthesis
\* call, whose prompt lists exactly the successful providers' labels and
\* texts, and the outcome of the run is the outcome of that call.
C10_HybridAbsorbsFailures ==
    \A i \in HybridIdx :
      LET f == stack[i]
          expected == {"Gemini"}
                      \cup (IF f.settings.openRouterApiKeys # << >>
                            THEN {"OpenRouter (Dynamic)"} ELSE {})
                      \cup (IF f.settings.huggingFaceApiKeys # << >>
                            THEN {"HuggingFace (Dynamic)"} ELSE {})
      IN HasKeys(f.settings) =>
           /\ f.pc # "await_chat"
           /\ f.pc \in {"await_all", "await_synth", "done"} =>
                /\ {f.br[k].label : k \in 1..Len(f.br)} = expected
                /\ Len(f.br) = Cardinality(expected)
           /\ f.pc = "await_synth" =>
                /\ i < Depth
                /\ stack[i + 1].fn = "ewf" /\ stack[i + 1].origin = "hybridSynth"
                /\ Succeeded(f.br) # {}
                /\ PromptPairs(stack[i + 1].prompt) = PairsOf(f.br, Succeeded(f.br))
                /\ Len(stack[i + 1].prompt) = Cardinality(Succeeded(f.br))
           /\ f.pc = "done" =>
                /\ f.res = Err(HybridFailed) <=> Succeeded(f.br) = {}
                /\ f.res.kind = "ok" => Succeeded(f.br) # {}

C10_Witness ==
    \E i \in HybridIdx :
      /\ stack[i].pc = "await_synth"
      /\ Len(stack[i].br) = 3
      /\ \E a, b \in 1..3 : ~stack[i].br[a].success /\ stack[i].br[b].success

\* a Hybrid Engine call without OpenRouter and Hugging Face credentials
NoCredentials(settings) ==
    /\ Len(getOpenRouterKeys(settings)) = 0
    /\ Len(getHuggingFaceKeys(settings)) = 0

DegradedIdx == {i \in HybridIdx : NoCredentials(stack[i].settings)}

\* no fan-out below frame i, and nothing but Gemini requests on its behalf
OnlyGeminiAbove(i) ==
    /\ stack[i].br = << >>
    /\ stack[i].pc \in {"refresh", "await_chat", "done"}
    /\ \A j \in (i + 1)..Depth :
         /\ stack[j].fn \in {"chat", "ewf"}
         /\ stack[j].br = << >>
         /\ stack[j].settings.provider = "gemini"
         /\ \A k \in 1..Len(stack[j].sent) : stack[j].sent[k] = "gemini"

\* C11 (as stated): without OpenRouter and Hugging Face credentials a Hybrid
\* Engine call is answered by exactly one Gemini request, with no other request
\* and no fan-out, whatever the memory store holds.
C11_SingleGeminiRequest ==
    \A i \in DegradedIdx :
      /\ OnlyGeminiAbove(i)
      /\ stack[i].pc = "done" => stack[i].sent = <<"gemini">>

\* C11 (amended): without OpenRouter and Hugging Face credentials a Hybrid
\* Engine call is handed to getChatResponse with the provider forced to gemini:
\* no fan-out occurs and only Gemini is requested; the answer takes one Gemini
\* request, and when the memory store is not empty one more Gemini request (the
\* memory retrieval) is issued before it.
C11_GeminiOnlyDegradation ==
    \A i \in DegradedIdx :
      /\ OnlyGeminiAbove(i)
      /\ stack[i].pc = "done" =>
            stack[i].sent = IF Len(memories) = 0 THEN <<"gemini">>
                            ELSE <<"gemini", "gemini">>

C11_Witness ==
    \E i \in DegradedIdx :
      /\ stack[i].pc = "done"
      /\ Len(memories) > 0
      /\ stack[i].res.kind = "ok"
      /\ stack[i].sent = <<"gemini", "gemini">>

\* ---- properties of the retry adapters ----

\* the requests whose response has arrived
Settled == {i \in 1..Len(requests) : requests[i].resp # InFlight}

\* the position of the loops after request i was handled
PosAfter(i) ==
    IF i < Len(requests)
    THEN <<requests[i + 1].m, requests[i + 1].k>>
    ELSE <<modelIdx, keyIdx>>

\* the next credential for the same model, or the next model after the last one
NextCredential(r) ==
    IF r.k < Len(apiKeyList) THEN <<r.m, r.k + 1>> ELSE <<r.m + 1, 1>>

NextModel(r) == <<r.m + 1, 1>>

\* request i was the last one for its model
Abandoned(i) ==
    /\ PosAfter(i) = NextModel(requests[i])
    /\ \A j \in (i + 1)..Len(requests) : requests[j].model # requests[i].model

CredentialExhausted(status) ==
    IF adapter = "openrouter" THEN status \in {401, 402, 429} ELSE status \in {401, 429}

\* C12: in both retry adapters a credential-exhausted status (401, 402, 429
\* for callOpenRouter; 401, 429 for callHuggingFace) makes the adapter try the
\* next credential for the same model; any other non-success status makes it
\* abandon the model: no further request for it, the next model is next.
C12_StatusClassification ==
    \A i \in Settled :
      LET r == requests[i]
      IN (r.resp # NetworkError /\ ~ok(r.resp)) =>
           IF CredentialExhausted(r.resp.status)
           THEN PosAfter(i) = NextCredential(r)
           ELSE Abandoned(i)

C12_Witness ==
    /\ Len(apiKeyList) = 2
    /\ \E i, j \in Settled :
         /\ i < Len(requests) /\ j < Len(requests)
         /\ CredentialExhausted(requests[i].resp.status) /\ requests[i].k = 1
         /\ requests[i + 1].m = requests[i].m /\ requests[i + 1].k = 2
         /\ requests[j].resp.status \in {402, 500, 503} /\ requests[j].k = 1
         /\ ~CredentialExhausted(requests[j].resp.status)
         /\ requests[j + 1].m = requests[j].m + 1

\* the failure a response stands for
ObservedError(resp) ==
    CASE resp = NetworkError -> FetchFailed
      [] ~ok(resp) -> <<"status ", ToString(resp.status)>>
      [] resp.body = "malformed" -> MalformedBody
      [] resp.body = "loading" -> ModelLoading
      [] resp.body = "empty" -> EmptyResponse
      [] OTHER -> Undefined

\* C13: when callOpenRouter has exhausted every model and credential without
\* success, the aggregate failure it raises carries the last observed error,
\* whatever kind of failure that was (status, network error, malformed body).
C13_CarriesLastObservedError ==
    (adapter = "openrouter" /\ adapterPc = "done" /\ outcome.kind = "err") =>
        /\ Len(requests) > 0
        /\ outcome.val = OpenRouterFailed(specificModel,
                                          ObservedError(requests[Len(requests)].resp))

\* every response so far of models 1..N was a loading signal, every response
\* of model N+1 was generated text
LoadingThenText(N) ==
    \A i \in Settled :
      /\ requests[i].m <= N => requests[i].resp = Response(200, "loading")
      /\ requests[i].m = N + 1 => requests[i].resp = Response(200, "text")

\* C14: callHuggingFace never aborts the whole call on a loading signal: if
\* the first N models answer loading and model N+1 answers with non-empty text,
\* the call returns the text of model N+1, and each of the N loading models
\* received at least one request.
C14_LoadingNeverAborts ==
    (adapter = "huggingface" /\ adapterPc = "done") =>
        \A N \in 0..(Len(modelsToTry) - 1) :
          LoadingThenText(N) =>
            /\ outcome = Ok(ResponseText(modelsToTry[N + 1]))
            /\ \A n \in 1..N : \E i \in Settled : requests[i].m = n

C14_Witness ==
    /\ adapter = "huggingface" /\ adapterPc = "done"
    /\ Len(apiKeyList) = 2
    /\ LoadingThenText(1)
    /\ Len(requests) = 3
    /\ outcome = Ok(ResponseText(modelsToTry[2]))

\* C15: in callHuggingFace a loading signal for model m abandons m: the next
\* model is next and no request for m is issued with the remaining credentials.
C15_LoadingAbandonsModel ==
    adapter = "huggingface" =>
        \A i \in Settled :
          requests[i].resp = Response(200, "loading") => Abandoned(i)

\* request i ended the inner loop of its model
ModelDone(i) ==
    \/ requests[i].k = Len(apiKeyList)
    \/ /\ requests[i].resp # NetworkError
       /\ ~ok(requests[i].resp)
       /\ ~CredentialExhausted(requests[i].resp.status)

\* C16: callHuggingFace never returns empty text: a success response without
\* generated text is a failure and the loops go on; the call returns if and
\* only if some request yields non-empty generated text, and otherwise raises
\* the aggregate failure once all models and credentials are used up.
C16_NeverReturnsEmpty ==
    adapter = "huggingface" =>
        /\ \A i \in Settled :
             /\ requests[i].resp = Response(200, "text") =>
                  /\ i = Len(requests)
                  /\ adapterPc = "done"
                  /\ outcome = Ok(ResponseText(requests[i].model))
             /\ requests[i].resp = Response(200, "empty") =>
                  /\ PosAfter(i) = NextCredential(requests[i])
                  /\ (i = Len(requests) => outcome.kind # "ok")
        /\ outcome.kind = "ok" =>
             /\ outcome.val # NoText
             /\ requests[Len(requests)].resp = Response(200, "text")
        /\ adapterPc = "done" => outcome.kind \in {"ok", "err"}
        /\ outcome.kind = "err" =>
             /\ adapterPc = "done"
             /\ outcome.val = HuggingFaceFailed(adapterLastError)
             /\ \A n \in 1..Len(modelsToTry) :
                  \E i \in Settled : requests[i].m = n /\ ModelDone(i)

C16_Witness ==
    /\ adapter = "huggingface" /\ adapterPc = "done"
    /\ outcome.kind = "ok"
    /\ \E i \in Settled : requests[i].resp = Response(200, "empty")

RefreshCompleted == lastDiscoveryTime # 0

\* C18: once the first refresh has completed, both model catalogs are
\* non-empty in every reachable state, whatever the discovery requests
\* answered and however overlapping refreshes interleave.
C18_CatalogsNonEmpty ==
    RefreshCompleted =>
        /\ Len(cachedOpenRouterModels) > 0
        /\ Len(cachedHuggingFaceModels) > 0

C18_Witness ==
    /\ RefreshCompleted
    /\ cachedOpenRouterModels = SAFETY_FALLBACK_OPENROUTER
    /\ cachedHuggingFaceModels = SAFETY_FALLBACK_HF
    /\ \E c, d \in RefreshCallers :
         /\ refreshes[c].pc = "written"
         /\ refreshes[d].pc = "fetching"
         /\ refreshes[d].now = refreshes[c].now
         /\ refreshes[d].hfResp = InvalidBody

\* the listing has an entry of an unexpected shape, or no zero-priced model
UnexpectedShape(data) == \E i \in 1..Len(data) : data[i].id = Missing

NoZeroPriced(data) ==
    \A i \in 1..Len(data) :
      ~(data[i].pricing.prompt = "0" /\ data[i].pricing.completion = "0")

\* C19: discovery never raises: a network error, a malformed or unexpectedly
\* shaped body, or for OpenRouter a listing with no zero-priced model yields
\* exactly the provider's safety list, never an error, never an empty catalog.
C19_DiscoveryFallsBack ==
    \A c \in RefreshCallers :
      LET r == refreshes[c]
      IN /\ r.orResp # NotYet =>
              /\ Len(r.orModels) > 0
              /\ (\/ r.orResp.kind # "listing"
                  \/ UnexpectedShape(r.orResp.data)
                  \/ NoZeroPriced(r.orResp.data))
                 => r.orModels = SAFETY_FALLBACK_OPENROUTER
         /\ r.hfResp # NotYet =>
              /\ Len(r.hfModels) > 0
              /\ r.hfResp.kind # "listing" => r.hfModels = SAFETY_FALLBACK_HF

\* the step is a call of refreshModelCache by caller c
IsCall(c) ==
    /\ refreshes[c].pc # "fetching"
    /\ refreshes'[c] # refreshes[c]
    /\ refreshes'[c].pc \in {"fetching", "skipped"}

\* at the time of the call the cache is older than one hour, or a catalog is
\* empty
OlderThanOneHour == clock - lastDiscoveryTime > CACHE_DURATION

CatalogEmpty == Len(cachedOpenRouterModels) = 0 \/ Len(cachedHuggingFaceModels) = 0

\* C20 (as stated): refreshModelCache issues discovery requests only if, at
\* the time of the call, the cache is older than one hour or the catalog is
\* empty; otherwise it issues none and leaves the catalogs and the timestamp
\* unchanged.  A call made right after a completed refresh is a no-op.
C20_NoOpAfterRefresh ==
    [][\A c \in RefreshCallers :
         IsCall(c) =>
           /\ refreshes'[c].pc = "fetching" <=> (OlderThanOneHour \/ CatalogEmpty)
           /\ refreshes'[c].pc = "skipped" =>
                UNCHANGED <<cachedOpenRouterModels, cachedHuggingFaceModels,
                            lastDiscoveryTime>>
           /\ justWritten => refreshes'[c].pc = "skipped"]_vars

\* C20 (amended): refreshModelCache issues discovery requests only if, at the
\* time of the call, the cache is older than one hour or the catalog is empty;
\* otherwise it issues none and leaves the catalogs and the timestamp
\* unchanged.  The timestamp of a refresh is the time it started, so a call
\* made right after a completed refresh is a no-op when that refresh started
\* no more than one hour earlier.
C20_NoOpWithinTheHour ==
    [][\A c \in RefreshCallers :
         IsCall(c) =>
           /\ refreshes'[c].pc = "fetching" <=> (OlderThanOneHour \/ CatalogEmpty)
           /\ refreshes'[c].pc = "skipped" =>
                UNCHANGED <<cachedOpenRouterModels, cachedHuggingFaceModels,
                            lastDiscoveryTime>>
           /\ (justWritten /\ ~OlderThanOneHour) => refreshes'[c].pc = "skipped"]_vars

C20_Witness ==
    /\ justWritten
    /\ \E c, d \in RefreshCallers :
         /\ refreshes[c].pc = "written"
         /\ refreshes[d].pc = "skipped"
         /\ refreshes[d].now = clock
         /\ clock = refreshes[c].now + CACHE_DURATION

\* ---- the produced catalogs ----

\* both prices of the listed model are zero
ZeroPriced(model) == model.pricing.prompt = "0" /\ model.pricing.completion = "0"

\* the place of an identifier in a listing of entries
PlaceOf(data, id) == CHOOSE k \in 1..Len(data) : data[k].id = id

\* the catalog holds exactly the zero-priced models of the listing, by
\* descending score, models of equal score in the order of the listing
RankedZeroPriced(data, catalog) ==
    LET free == SelectSeq(data, ZeroPriced)
    IN /\ Len(catalog) > 0
       /\ Len(catalog) = Len(free)
       /\ {catalog[i] : i \in 1..Len(catalog)} = {free[i].id : i \in 1..Len(free)}
       /\ \A i, j \in 1..Len(catalog) :
            i < j =>
              /\ getScore(catalog[i]) >= getScore(catalog[j])
              /\ getScore(catalog[i]) = getScore(catalog[j])
                   => PlaceOf(data, catalog[i]) < PlaceOf(data, catalog[j])

\* the OpenRouter discovery of the call settled with a listing that has a
\* zero-priced model
ZeroPricedListed(r) ==
    /\ r.orResp.kind = "listing"
    /\ \E k \in 1..Len(r.orResp.data) : ZeroPriced(r.orResp.data[k])

\* every zero-priced model of the listing carries an identifier
ZeroPricedIdentified(data) ==
    \A k \in 1..Len(data) : ZeroPriced(data[k]) => data[k].id # Missing

\* C21 (as stated): for every OpenRouter discovery response that contains at
\* least one model whose prompt price and completion price are both zero, the
\* produced catalog is non-empty, contains exactly the zero-priced models, and
\* is sorted by the scoring function in descending order, models of equal
\* score keeping their relative order from the response.
C21_ZeroPricedCatalog ==
    \A c \in RefreshCallers :
      ZeroPricedListed(refreshes[c])
        => RankedZeroPriced(refreshes[c].orResp.data, refreshes[c].orModels)

\* C21 (amended): for every OpenRouter discovery response that contains at
\* least one model whose prompt price and completion price are both zero, and
\* in which every such model carries an identifier, the produced catalog is
\* non-empty, contains exactly the zero-priced models, and is sorted by the
\* scoring function in descending order, models of equal score keeping their
\* relative order from the response.
C21_IdentifiedZeroPricedCatalog ==
    \A c \in RefreshCallers :
      (/\ ZeroPricedListed(refreshes[c])
       /\ ZeroPricedIdentified(refreshes[c].orResp.data))
        => RankedZeroPriced(refreshes[c].orResp.data, refreshes[c].orModels)

\* a listing with a model that is not free, and with two zero-priced models of
\* equal score among three
C21_Witness ==
    \E c \in RefreshCallers :
      LET r == refreshes[c]
      IN /\ ZeroPricedListed(r)
         /\ ZeroPricedIdentified(r.orResp.data)
         /\ Len(r.orModels) >= 3
         /\ Len(r.orResp.data) > Len(r.orModels)
         /\ \E i, j \in 1..Len(r.orModels) :
              /\ i < j
              /\ getScore(r.orModels[i]) = getScore(r.orModels[j])
         /\ \E i, j \in 1..Len(r.orModels) :
              getScore(r.orModels[i]) > getScore(r.orModels[j])

\* the first place of an identifier in a listing of identifiers
FirstPlace(ids, id) ==
    CHOOSE k \in 1..Len(ids) : ids[k] = id /\ \A m \in 1..(k - 1) : ids[m] # id

\* the identifier matches the known-problematic one
Problematic(id) == "gemma-7b" \in includes(id)

\* C22: for every successful Hugging Face discovery response, the produced
\* catalog starts with the two safety-list models in their fixed order,
\* followed by the discovered models in response order, contains no identifier
\* twice, and contains no discovered model matching the known-problematic
\* identifier.
C22_SafetyListFirst ==
    \A c \in RefreshCallers :
      LET r == refreshes[c]
          data == r.hfResp.data
          catalog == r.hfModels
          safety == {SAFETY_FALLBACK_HF[i] : i \in 1..Len(SAFETY_FALLBACK_HF)}
      IN r.hfResp.kind = "listing" =>
           /\ Len(catalog) >= 2
           /\ SubSeq(catalog, 1, 2) = SAFETY_FALLBACK_HF
           /\ {catalog[i] : i \in 3..Len(catalog)}
                = {data[k] : k \in 1..Len(data)} \ (safety \cup {id \in {data[k] : k \in 1..Len(data)} : Problematic(id)})
           /\ \A i, j \in 3..Len(catalog) :
                i < j => FirstPlace(data, catalog[i]) < FirstPlace(data, catalog[j])
           /\ \A i, j \in 1..Len(catalog) : i # j => catalog[i] # catalog[j]
           /\ \A i \in 1..Len(catalog) : ~Problematic(catalog[i])

\* a listing with the problematic model, a model of the safety list, and a
\* model listed twice
C22_Witness ==
    \E c \in RefreshCallers :
      LET r == refreshes[c]
          data == r.hfResp.data
      IN /\ r.hfResp.kind = "listing"
         /\ \E k \in 1..Len(data) : Problematic(data[k])
         /\ \E k \in 1..Len(data) : data[k] = SAFETY_FALLBACK_HF[2]
         /\ \E k, m \in 1..Len(data) : k # m /\ data[k] = data[m]
         /\ Len(r.hfModels) = 4

\* the three module-level variables of the cache
CacheTriple == <<cachedOpenRouterModels, cachedHuggingFaceModels, lastDiscoveryTime>>

\* C23: under any interleaving of overlapping refreshes and readers the cache
\* is never observed half-updated: a step that changes the OpenRouter catalog,
\* the Hugging Face catalog or the refresh timestamp writes all three from one
\* refresh, each catalog being the complete result of one discovery of that
\* refresh; until the first such step all three are initial.
C23_WrittenTogether ==
    [][CacheTriple' # CacheTriple =>
         \E c \in RefreshCallers :
           /\ refreshes[c].pc = "fetching"
           /\ refreshes[c].orResp # NotYet
           /\ refreshes[c].hfResp # NotYet
           /\ cachedOpenRouterModels' = discoverFreeOpenRouterModels(refreshes[c].orResp)
           /\ cachedHuggingFaceModels' = discoverTrendingHFModels(refreshes[c].hfResp)
           /\ lastDiscoveryTime' = refreshes[c].now]_vars

\* two refreshes overlapped, and the one that started first wrote last
C23_Witness ==
    \E c, d \in RefreshCallers :
      /\ refreshes[c].pc = "written"
      /\ refreshes[d].pc = "written"
      /\ refreshes[c].now < refreshes[d].now
      /\ lastDiscoveryTime = refreshes[c].now

\* ---- the JSON extractor's results ----

\* the four texts sanitizeAndParseJson tries, in order: the whole text, the
\* interior of the first fenced code block, the first '{' to the last '}',
\* the first '[' to the last ']'
Candidates(toks) ==
    << [found |-> TRUE, text |-> toks],
       codeBlockMatch(toks),
       substring(toks, "{", "}"),
       substring(toks, "[", "]") >>

Parses(candidate) == candidate.found /\ JSONparse(candidate.text).ok

\* C24: sanitizeAndParseJson applies four attempts in fixed order and returns
\* the value of the first that parses: the whole text; the interior of the
\* first fenced code block; the substring from the first '{' to the last '}';
\* the substring from the first '[' to the last ']'.  It raises a parse
\* failure if and only if all four attempts fail.
C24_FirstParsingAttempt ==
    jsonResult # Running =>
      LET cs == Candidates(jsonInput.text)
          parsing == {n \in 1..4 : Parses(cs[n])}
      IN IF parsing = {}
         THEN jsonResult.raised
         ELSE LET first == CHOOSE n \in parsing : \A m \in parsing : n <= m
              IN /\ ~jsonResult.raised
                 /\ jsonResult.val = JSONparse(cs[first].text).val

\* the fourth attempt gives the value after a code block and a brace span
\* were found and did not parse
C24_Witness ==
    /\ jsonResult.attempt = "brackets"
    /\ codeBlockMatch(jsonInput.text).found
    /\ substring(jsonInput.text, "{", "}").found

Contains(toks, c) == \E i \in 1..Len(toks) : toks[i] = c

PlainProse(w) ==
    \A c \in {"{", "}", "[", "]", Fence} : ~Contains(w.before \o w.after, c)

Min(a, b) == IF a < b THEN a ELSE b

\* the markers selectSwarmModels prefers for the prompt, and for every prompt
PreferredMarkers(prompt) ==
    {"llama-3", "gemini", "mistral"}
    \cup (IF \E w \in {"code", "function", "script", "html"} : promptIncludes(prompt, w)
          THEN {"coder", "deepseek", "flash"}
          ELSE IF \E w \in {"why", "explain", "solve", "think"} : promptIncludes(prompt, w)
          THEN {"r1", "llama", "mistral"}
          ELSE {})

\* C26: selectSwarmModels returns, for every prompt and every non-empty
\* catalog, a list without duplicates of at most five identifiers that all
\* come from the catalog, and its length is min(5, number of distinct catalog
\* entries): remaining slots are filled from the front of the catalog until
\* five distinct models are selected or the catalog is exhausted, so a model
\* that is selected although an earlier one is not is one the heuristics
\* prefer.
C26_AtMostFiveDistinct ==
    (selectResult # NotSelected /\ Len(selectInput.availableModels) > 0) =>
      LET catalog == selectInput.availableModels
          entries == {catalog[i] : i \in 1..Len(catalog)}
          chosen == {selectResult[i] : i \in 1..Len(selectResult)}
      IN /\ \A i, j \in 1..Len(selectResult) : i # j => selectResult[i] # selectResult[j]
         /\ Len(selectResult) <= 5
         /\ chosen \subseteq entries
         /\ Len(selectResult) = Min(5, Cardinality(entries))
         /\ \A x \in entries \ chosen, y \in chosen :
              FirstPlace(catalog, x) < FirstPlace(catalog, y)
                => includes(y) \cap PreferredMarkers(selectInput.prompt) # {}

\* a catalog of more than five models: a preferred model is selected although
\* an earlier model is not, and a slot is filled from the front
C26_Witness ==
    /\ selectResult # NotSelected
    /\ Len(selectInput.availableModels) > 5
    /\ Len(selectResult) = 5
    /\ \E p, q \in 1..Len(selectInput.availableModels) :
         /\ p < q
         /\ \A i \in 1..5 : selectResult[i] # selectInput.availableModels[p]
         /\ \E i \in 1..5 : selectResult[i] = selectInput.availableModels[q]
    /\ \E i \in 1..5 : includes(selectResult[i]) \cap PreferredMarkers(selectInput.prompt) = {}

\* ---- settings and credentials ----

\* C27: no orchestration operation modifies the settings value or the
\* credential lists it was given: at every step the settings of every call
\* that is on the stack before and after the step are the same, whether a call
\* below it starts, returns or raises, and the forced policy of a synthesis
\* call is held by the synthesis call alone.
C27_SettingsUntouched ==
    [][\A i \in 1..Min(Len(stack), Len(stack')) :
         /\ stack'[i].settings = stack[i].settings
         /\ (i < Len(stack') /\ stack'[i + 1].origin = "swarmSynth") =>
              stack'[i + 1].settings = SwarmSynthesisSettings(stack'[i].settings)]_vars

\* a Swarm run has returned to a caller whose policy still names the complex
\* task mode and a provider other than gemini
C27_Witness ==
    /\ Depth = 1
    /\ Top.fn = "ewf" /\ Top.pc = "done" /\ Top.swarm = "ok"
    /\ Top.res.kind = "ok"
    /\ Top.settings.isComplexTaskMode
    /\ Top.settings.provider = "openrouter"
    /\ Len(Top.settings.huggingFaceApiKeys) > 0

\* the requests frame f has issued to a provider
RequestsTo(f, p) ==
    Cardinality({k \in 1..Len(f.sent) : f.sent[k] = p})
    + (IF f.fn = "swarm" /\ p = "openrouter" THEN Len(f.sent) ELSE 0)

\* C28: a provider with no configured credentials never receives a chat or
\* inference request: with an empty OpenRouter credential list no marketplace
\* completion request is issued and with an empty Hugging Face list no
\* inference request is issued, on every path (trial list, Swarm, Hybrid);
\* choosing such a provider is a configuration error of that path only and the
\* call falls back.  With provider gemini, no complex-task mode and no other
\* credentials, only the primary provider is tried and its text is returned
\* unchanged.
C28_NoRequestWithoutCredentials ==
    \A i \in 1..Depth :
      LET f == stack[i]
          noOpenRouter == Len(f.settings.openRouterApiKeys) = 0
          noHuggingFace == Len(f.settings.huggingFaceApiKeys) = 0
      IN /\ noOpenRouter => RequestsTo(f, "openrouter") = 0
         /\ noHuggingFace => RequestsTo(f, "huggingface") = 0
         /\ f.fn = "ewf" =>
              /\ \A k \in 1..Len(f.att) :
                   (\/ f.att[k].p = "openrouter" /\ noOpenRouter
                    \/ f.att[k].p = "huggingface" /\ noHuggingFace)
                     => /\ f.att[k].out = "err"
                        /\ f.att[k].val \in {NoOpenRouterKeys, NoHuggingFaceKeys}
                        /\ k < Len(f.providers)
                        /\ f.pc = "done" => Len(f.att) > k
              /\ (/\ f.settings.provider = "gemini" /\ ~f.settings.isComplexTaskMode
                  /\ noOpenRouter /\ noHuggingFace /\ f.pc = "done")
                   => /\ f.providers = <<"gemini">>
                      /\ f.sent = <<"gemini">>
                      /\ Len(f.att) = 1
                      /\ f.res.kind = "ok" => f.res.val = f.att[1].val

\* the chosen provider has no credentials: its attempt is the configuration
\* error, and the answer is the text of the primary provider
C28_Witness ==
    /\ Depth = 1
    /\ Top.fn = "ewf" /\ Top.pc = "done" /\ Top.res.kind = "ok"
    /\ Top.settings.provider = "huggingface"
    /\ Len(Top.settings.huggingFaceApiKeys) = 0
    /\ Len(Top.att) = 2
    /\ Top.att[1].val = NoHuggingFaceKeys
    /\ Top.att[2].p = "gemini"
    /\ Top.res.val = Top.att[2].val
    /\ Top.sent = <<"gemini">>

\* ---- the delivered chunks ----

\* C30: for every top-level executeWithFallback call that is given a
\* streaming callback and returns text T after delivering at least one chunk,
\* the concatenation of all chunks delivered to the callback, in delivery
\* order, equals T; also when a streaming attempt fails midway and a later
\* credential, model or provider produces the answer, and when a Swarm
\* attempt precedes the answer.
C30_ChunksAreTheText ==
    (/\ streamPc = "done"
     /\ streamCall.res.kind = "ok"
     /\ Len(delivered) >= 1)
      => delivered = streamCall.res.val

\* ---- termination ----

\* the top-level call has returned or raised
TopLevelSettled == Depth = 1 /\ Top.pc = "done"

StopsOnlyAtHybridReentry ==
    (stack[1].fn = "ewf" /\ ~TopLevelSettled /\ ~ENABLED Next)
      => /\ stack[1].settings.provider = "hybrid"
         /\ Depth = MaxDepth
         /\ Top.fn = "hybrid" /\ Top.pc = "await_all"
         /\ Top.settings = stack[1].settings

\* with any other provider the top-level call settles
OtherPoliciesSettle ==
    <>(stack[1].fn # "ewf" \/ stack[1].settings.provider = "hybrid" \/ TopLevelSettled)

\* ---- the deltas of a streamed body ----

\* the streaming loop has returned
SseReturned == ssePc = "done"

\* C31: in the streaming mode of the marketplace adapter every event line of
\* the body that starts with the data marker and carries a non-empty text delta
\* is forwarded to the callback exactly once and in body order, for every way
\* the body is split into network chunks, a last line without newline
\* included; the sentinel line is skipped, and the returned text is the
\* concatenation of the forwarded deltas.
C31_EveryDeltaForwarded ==
    SseReturned =>
      /\ sseDelivered = chunksOf(sseInput.lines)
      /\ sseFullResponse = sseDelivered

\* the same of the lines that end with a newline
SseDeltasOfTerminatedLines ==
    SseReturned =>
      /\ sseDelivered =
           chunksOf(IF sseInput.terminated \/ Len(sseInput.lines) = 0
                    THEN sseInput.lines
                    ELSE SubSeq(sseInput.lines, 1, Len(sseInput.lines) - 1))
      /\ sseFullResponse = sseDelivered

\* ---- the ranking of the markers ----

\* the markers of getScore but the free suffix, by class
TopTierMarkers == {"deepseek-r1"}
FamilyMarkers == {"llama-3", "mistral", "gemini"}
ParameterCountMarkers == {"70b"}
ScoreMarkers == TopTierMarkers \cup FamilyMarkers \cup ParameterCountMarkers \cup {"free"}

\* the identifier matches markers of the class and no other marker of getScore
MatchesOnly(id, class) ==
    /\ includes(id) \cap ScoreMarkers # {}
    /\ includes(id) \cap ScoreMarkers \subseteq class

\* in the returned catalog every identifier matching only the first class
\* stands before every identifier matching only the second
PlacedBefore(first, second) ==
    \A i, j \in 1..Len(scoreResult) :
      (MatchesOnly(scoreResult[i], first) /\ MatchesOnly(scoreResult[j], second)) => i < j

\* a call has returned a catalog of the listing
ScoreReturned == scoreResult # NoCatalog /\ Len(scoreInput) > 0

\* C32 (as stated): the top-tier reasoning-model family marker scores highest,
\* the large-parameter-count marker next, and family/vendor name markers below
\* the parameter-count marker; so among zero-priced models an identifier
\* matching only the parameter-count marker is placed before an identifier
\* matching only a family/vendor name.
C32_ParameterCountBeforeFamily ==
    ScoreReturned =>
      /\ PlacedBefore(TopTierMarkers, ParameterCountMarkers)
      /\ PlacedBefore(ParameterCountMarkers, FamilyMarkers)

\* C32 (amended): the top-tier reasoning-model family marker scores highest,
\* family/vendor name markers next, and the large-parameter-count marker below
\* the family/vendor name markers; so among zero-priced models an identifier
\* matching only a family/vendor name is placed before an identifier matching
\* only the parameter-count marker.
C32_FamilyBeforeParameterCount ==
    ScoreReturned =>
      /\ PlacedBefore(TopTierMarkers, FamilyMarkers)
      /\ PlacedBefore(TopTierMarkers, ParameterCountMarkers)
      /\ PlacedBefore(FamilyMarkers, ParameterCountMarkers)

\* a listing that names the parameter-count identifier first comes back with
\* the family identifier first
C32_Witness ==
    /\ ScoreReturned
    /\ Len(scoreInput) >= 2
    /\ MatchesOnly(scoreInput[1].id, ParameterCountMarkers)
    /\ MatchesOnly(scoreInput[2].id, FamilyMarkers)
    /\ scoreResult[1] = scoreInput[2].id
    /\ \E j \in 2..Len(scoreResult) : scoreResult[j] = scoreInput[1].id

\* ---- the history in the requests ----

\* the texts of the turns of a request but its system instruction, in order
TurnTexts(turns) ==
    LET said == SelectSeq(turns, LAMBDA t : t.role # "system")
    IN [i \in 1..Len(said) |-> said[i].text]

\* the request carries all history turns in their order, then the prompt
CarriesHistory(turns) ==
    TurnTexts(turns) = [i \in 1..Len(wireHistory) |-> wireHistory[i].text] \o <<wirePrompt>>

\* C33: every chat request issued on behalf of a top-level call that has a
\* non-empty history (by the trial loop for Gemini, OpenRouter and Hugging
\* Face, by the Swarm per-model calls, and by the Hybrid parallel calls)
\* carries all history turns in their original chronological order, followed
\* by the new prompt as the last turn.
C33_HistoryInEveryRequest ==
    Len(wireHistory) > 0 =>
      \A site \in Sites :
        wireRequests[site] # NotSent => CarriesHistory(wireRequests[site])

\* the same of the requests of the trial loop and of the Swarm
HistoryInTrialAndSwarmRequests ==
    \A site \in TrialSites \cup SwarmSites :
      wireRequests[site] # NotSent => CarriesHistory(wireRequests[site])

\* ---- the models callOpenRouter tries ----

\* the list of the models to try is made
EntryDone == adapterPc = "loop" /\ Len(entryInput.catalog) > 0

\* the place of an identifier in a list without repetitions
PlaceIn(list, id) == CHOOSE k \in 1..Len(list) : list[k] = id

\* the list holds the models of the catalog, each once
SameModels(list, catalog) ==
    /\ Len(list) = Len(catalog)
    /\ \A k \in 1..Len(catalog) : \E i \in 1..Len(list) : list[i] = catalog[k]

C35_LastStartedWins ==
    [][/\ lastDiscoveryTime' >= lastDiscoveryTime
       /\ \A c \in RefreshCallers :
            (refreshes[c].pc = "fetching" /\ refreshes'[c].pc = "written")
              => refreshes[c].now >= lastDiscoveryTime]_vars

\* ---- the outcomes of the sandbox calls ----

\* C36: for any number of overlapping executeSkillInSandbox calls on the
\* shared worker, the promise returned by each call settles with the result or
\* error of executing that call's own code and arguments, never with the
\* outcome of another call, and every call's message and error listeners are
\* removed from the worker when its promise settles.
C36_OwnOutcome ==
    \A c \in 1..Len(sandboxCalls) :
      sandboxCalls[c].pc = "settled" =>
        /\ sandboxCalls[c].of = c
        /\ c \notin listeners

\* the listeners on the worker are those of the calls that have not settled
ListenersOfPendingCalls ==
    listeners = {c \in 1..Len(sandboxCalls) : sandboxCalls[c].pc = "pending"}

\* a call that does not overlap another settles with its own outcome
AloneOwnOutcome ==
    \A c \in 1..Len(sandboxCalls) :
      (sandboxCalls[c].pc = "settled" /\ \A d \in 1..Len(sandboxCalls) : d # c => d \in NotCalled)
        => sandboxCalls[c].of = c

\* ---- the automatic analyses in flight ----

\* C37: at most one automatic skill-learning analysis is in flight at any
\* time, in every interleaving of message changes, timer expiries, new-chat
\* requests and analysis completions
C37_AtMostOneAnalysis == Cardinality(InFlightAnalyses) <= 1

\* the timer is pending only after a user message, while the app is not
\* loading and isLearning.current is false
TimerAfterUserMessage ==
    learningTimer => lastSender = "user" /\ ~isLoading /\ ~isLearning

\* an analysis is started only when isLearning.current is false
StartsWhenNotLearning ==
    [][Len(analyses') > Len(analyses) => ~isLearning /\ lastSender = "user" /\ ~isLoading]_vars

\* isLearning.current false does not mean that no analysis is in flight
NoAnalysisWhenNotLearning == ~isLearning => InFlightAnalyses = {}

\* ---- the stored key indices ----

\* a stored index is an integer i with 0 <= i < max(1, number of keys)
InRange(index, keys) ==
    /\ ~index.nan
    /\ 0 <= index.val
    /\ index.val < (IF Len(keys) > 1 THEN Len(keys) ELSE 1)

\* C38: after any sequence of add-key, remove-key, select-active-key, save and
\* rotateKey actions, in any interleaving with requests in flight that hold
\* an older settings snapshot, each persisted active-key index is an integer
\* i with 0 <= i < max(1, number of keys of that provider)
C38_StoredIndicesInRange ==
    /\ InRange(aiSettings.openRouterKeyIndex, aiSettings.openRouterApiKeys)
    /\ InRange(aiSettings.huggingFaceKeyIndex, aiSettings.huggingFaceApiKeys)

\* a stored index that is a number is in range
StoredNumbersInRange ==
    /\ aiSettings.openRouterKeyIndex.nan
       \/ InRange(aiSettings.openRouterKeyIndex, aiSettings.openRouterApiKeys)
    /\ aiSettings.huggingFaceKeyIndex.nan
       \/ InRange(aiSettings.huggingFaceKeyIndex, aiSettings.huggingFaceApiKeys)

\* handleSave, the one step that stores settings while no request returns,
\* stores indices in range, whatever the draft holds
SaveStoresInRange ==
    [][aiSettings' # aiSettings /\ captured' = captured => C38_StoredIndicesInRange']_vars

====
